---- MODULE Spec2Model ----
(***************************************************************************)
(* Google Chat provider adapter of clawdbot: outbound text chunking and    *)
(* sending, inbound normalization, the access policy, the two ingestion    *)
(* transports (Pub/Sub pull monitor, HTTP webhook), the account functions  *)
(* and the gateway that starts one monitor per account.                    *)
(*                                                                         *)
(* Strings are sequences of one-character strings, so that trim, replace,  *)
(* startsWith, lastIndexOf and toLowerCase are computed, not assumed.      *)
(* An optional value (a field that may be undefined) is a sequence of      *)
(* length 0 (None) or 1 (Some(v)).                                         *)
(***************************************************************************)
EXTENDS Integers, Sequences, FiniteSets, TLC

VARIABLES
    \* chunkGoogleChatText (send.ts): arguments, locals, position
    text, maxLength, remaining, chunks, chunkPc,
    \* normalizeMessage (monitor, webhook-server.ts): argument, caller, result
    normEvent, normVia, normResult,
    \* checkMessagePolicy (monitor): arguments, result
    polMessage, polAccount, polResult,
    \* the account and options both transports are started with
    account, onMessageProvided,
    \* monitorGoogleChatProvider (monitor): outcome of the start, listeners on
    \* the subscription, the abort signal and its listener, the last message
    \* the handler ran on
    pullStatus, pullListening, aborted, abortListener, pullLast,
    \* startGoogleChatWebhookServer (webhook-server.ts): the server, and the
    \* POST requests in flight or answered
    webhookUp, requests,
    \* outbound (plugin, send.ts): the configuration, the chatClients cache,
    \* and the outbound requests in flight or finished
    sendCfg, chatClients, sends,
    \* accounts.ts: the configuration the account functions are called on, and
    \* the last call with its result
    appCfg, cfgOp,
    \* gateway.startAccount (plugin): per listed account, the monitor started
    \* for it: outcome of the start, listeners, abort signal
    monitors

chunkVars == <<text, maxLength, remaining, chunks, chunkPc>>
normVars == <<normEvent, normVia, normResult>>
policyVars == <<polMessage, polAccount, polResult>>
optionVars == <<account, onMessageProvided>>
pullVars == <<pullStatus, pullListening, aborted, abortListener, pullLast>>
webhookVars == <<webhookUp, requests>>
ingestVars == <<optionVars, pullVars, webhookVars>>
sendVars == <<sendCfg, chatClients, sends>>
accountVars == <<appCfg, cfgOp, monitors>>
vars == <<chunkVars, normVars, policyVars, ingestVars, sendVars, accountVars>>

nonChunkVars == <<normVars, policyVars, ingestVars, sendVars, accountVars>>
nonNormVars == <<chunkVars, policyVars, ingestVars, sendVars, accountVars>>
nonPolicyVars == <<chunkVars, normVars, ingestVars, sendVars, accountVars>>
nonIngestVars == <<chunkVars, normVars, policyVars, sendVars, accountVars>>
nonSendVars == <<chunkVars, normVars, policyVars, ingestVars, accountVars>>
nonAccountVars == <<chunkVars, normVars, policyVars, ingestVars, sendVars>>

-----------------------------------------------------------------------------
(* Bounds of the model *)

MaxTextLen == 5
MaxLimit == 4
\* webhook requests whose handlers may be in flight at once
MaxRequests == 2
\* outbound requests that may be in flight at once
MaxSends == 2
\* accounts under googlechat.accounts in a configuration
MaxAccounts == 2

-----------------------------------------------------------------------------
(* JavaScript values and string primitives *)

None == <<>>
Some(v) == <<v>>
IsSome(o) == Len(o) = 1
Get(o) == o[1]

\* the white space String.prototype.trim / trimStart remove, within the alphabet
WhiteSpace == {" ", "\n", "\t"}

Min(a, b) == IF a < b THEN a ELSE b

SetMax(S) == CHOOSE m \in S : \A x \in S : x <= m

\* s.slice(from) and s.slice(0, to), 0-based as in JavaScript
SliceFrom(s, from) == SubSeq(s, from + 1, Len(s))
SliceTo(s, to) == SubSeq(s, 1, Min(to, Len(s)))

\* s.lastIndexOf(ch, fromIndex) for a one-character ch: the greatest 0-based
\* index i <= fromIndex with s[i] = ch, or -1
LastIndexOf(s, ch, fromIndex) ==
    LET hits == {i \in 0..Min(fromIndex, Len(s) - 1) : s[i + 1] = ch}
    IN  IF hits = {} THEN -1 ELSE SetMax(hits)

\* s.trimStart()
TrimStart(s) ==
    LET lead == {i \in 0..Len(s) : \A j \in 1..i : s[j] \in WhiteSpace}
    IN  SliceFrom(s, SetMax(lead))

\* s.trimEnd()
TrimEnd(s) ==
    LET keep == {i \in 0..Len(s) : \A j \in (i + 1)..Len(s) : s[j] \in WhiteSpace}
    IN  SliceTo(s, CHOOSE m \in keep : \A x \in keep : m <= x)

\* s.trim()
Trim(s) == TrimEnd(TrimStart(s))

\* s.startsWith(p)
StartsWith(s, p) == Len(s) >= Len(p) /\ SubSeq(s, 1, Len(p)) = p

\* all strings over alphabet A of length at most n
StringsUpTo(A, n) == UNION {[1..k -> A] : k \in 0..n}

\* s.indexOf(p): the least 0-based index at which p occurs in s, or -1
IndexOf(s, p) ==
    LET hits == {i \in 0..(Len(s) - Len(p)) : SubSeq(s, i + 1, i + Len(p)) = p}
    IN  IF hits = {} THEN -1 ELSE CHOOSE m \in hits : \A x \in hits : m <= x

\* s.replace(p, r) with a string pattern: the first occurrence only
Replace(s, p, r) ==
    LET i == IndexOf(s, p)
    IN  IF i = -1 THEN s ELSE SliceTo(s, i) \o r \o SliceFrom(s, i + Len(p))

\* ch.toLowerCase() within the alphabet
LowerChar(ch) == IF ch = "A" THEN "a" ELSE IF ch = "B" THEN "b" ELSE ch

\* s.toLowerCase()
ToLowerCase(s) == [i \in 1..Len(s) |-> LowerChar(s[i])]

\* a ?? b on an optional string, and the truthiness of an optional string
OrElse(o, d) == IF IsSome(o) THEN Get(o) ELSE d
Truthy(o) == IsSome(o) /\ Len(Get(o)) > 0

-----------------------------------------------------------------------------
(* send.ts: chunkGoogleChatText *)

TextAlphabet == {"a", "b", " ", "\n", "\t"}

\* send.ts 160-166: the index at which the remaining text is cut
SplitAtHardSplitLate(rem, maxLen) ==
    LET nl == LastIndexOf(rem, "\n", maxLen)
        sp == LastIndexOf(rem, " ", maxLen)
        s1 == IF nl = -1 \/ 2 * nl < maxLen THEN sp ELSE nl
    IN  IF s1 = -1 \/ 2 * s1 < maxLen THEN maxLen + 1 ELSE s1

\* send.ts 160-166 with the space tried before the newline
SplitAtSpaceFirst(rem, maxLen) ==
    LET nl == LastIndexOf(rem, "\n", maxLen)
        sp == LastIndexOf(rem, " ", maxLen)
        s1 == IF sp = -1 \/ 2 * sp < maxLen THEN nl ELSE sp
    IN  IF s1 = -1 \/ 2 * s1 < maxLen THEN maxLen ELSE s1

\* send.ts 160-166 with half the limit rounded down
SplitAtHalfRoundedDown(rem, maxLen) ==
    LET nl == LastIndexOf(rem, "\n", maxLen)
        sp == LastIndexOf(rem, " ", maxLen)
        s1 == IF nl = -1 \/ nl < maxLen \div 2 THEN sp ELSE nl
    IN  IF s1 = -1 \/ s1 < maxLen \div 2 THEN maxLen ELSE s1

SplitAt(rem, maxLen) ==
    LET nl == LastIndexOf(rem, "\n", maxLen)
        sp == LastIndexOf(rem, " ", maxLen)
        s1 == IF nl = -1 \/ 2 * nl < maxLen THEN sp ELSE nl
    IN  IF s1 = -1 \/ 2 * s1 < maxLen THEN maxLen ELSE s1

\* send.ts 169: what is left after a cut
RestAfterSkipSeparator(rem, splitAt) == TrimStart(SliceFrom(rem, splitAt + 1))

RestAfter(rem, splitAt) == TrimStart(SliceFrom(rem, splitAt))

\* send.ts 147-173 as a function: the loop run to its end
RECURSIVE ChunkLoop(_, _, _)
ChunkLoop(rem, maxLen, acc) ==
    IF Len(rem) = 0 THEN acc
    ELSE IF Len(rem) <= maxLen THEN Append(acc, rem)
    ELSE LET splitAt == SplitAt(rem, maxLen)
         IN  ChunkLoop(RestAfter(rem, splitAt), maxLen,
                       Append(acc, SliceTo(rem, splitAt)))

chunkGoogleChatText(t, maxLen) ==
    IF Len(t) <= maxLen THEN <<t>> ELSE ChunkLoop(t, maxLen, <<>>)

\* a call with two one-letter lines followed by an unbroken run, under a
\* limit more than twice the length of the two lines (the shape of
\* chunkGoogleChatText("line one\nline two\n" + "x".repeat(5000), 4000))
LinesThenRun == <<"a", "\n", "b", "\n">> \o [i \in 1..(2 * MaxLimit - 2) |-> "a"]
LongLimit == 2 * MaxLimit

\* The same code step by step: chunkPc is the position in the function.
ChunkInit ==
    /\ \/ text \in StringsUpTo(TextAlphabet, MaxTextLen) /\ maxLength \in 1..MaxLimit
       \/ text = LinesThenRun /\ maxLength = LongLimit
    /\ remaining = <<>>
    /\ chunks = <<>>
    /\ chunkPc = "call"

\* the calls whose text has one letter only: the code treats every character
\* that is no white space alike
OneLetterAlphabet == TextAlphabet \ {"b"}

ChunkInitOneLetter ==
    /\ \/ text \in StringsUpTo(OneLetterAlphabet, MaxTextLen) /\ maxLength \in 1..MaxLimit
       \/ text = LinesThenRun /\ maxLength = LongLimit
    /\ remaining = <<>>
    /\ chunks = <<>>
    /\ chunkPc = "call"

ChunkIdle ==
    /\ text = <<>>
    /\ maxLength = 1
    /\ remaining = <<>>
    /\ chunks = <<>>
    /\ chunkPc = "idle"

\* send.ts 148: a text within the limit is returned as the only chunk
ChunkReturnWhole ==
    /\ chunkPc = "call"
    /\ Len(text) <= maxLength
    /\ chunks' = <<text>>
    /\ chunkPc' = "done"
    /\ UNCHANGED <<text, maxLength, remaining>>
    /\ UNCHANGED nonChunkVars

\* send.ts 150-151
ChunkEnterLoop ==
    /\ chunkPc = "call"
    /\ Len(text) > maxLength
    /\ chunks' = <<>>
    /\ remaining' = text
    /\ chunkPc' = "loop"
    /\ UNCHANGED <<text, maxLength>>
    /\ UNCHANGED nonChunkVars

\* send.ts 154-157: the last piece
ChunkPushLast ==
    /\ chunkPc = "loop"
    /\ Len(remaining) > 0
    /\ Len(remaining) <= maxLength
    /\ chunks' = Append(chunks, remaining)
    /\ chunkPc' = "done"
    /\ UNCHANGED <<text, maxLength, remaining>>
    /\ UNCHANGED nonChunkVars

\* send.ts 159-169: one cut
ChunkSplit ==
    /\ chunkPc = "loop"
    /\ Len(remaining) > maxLength
    /\ LET splitAt == SplitAt(remaining, maxLength)
       IN  /\ chunks' = Append(chunks, SliceTo(remaining, splitAt))
           /\ remaining' = RestAfter(remaining, splitAt)
    /\ UNCHANGED <<text, maxLength, chunkPc>>
    /\ UNCHANGED nonChunkVars

\* send.ts 153, 172: the loop condition fails
ChunkLoopExit ==
    /\ chunkPc = "loop"
    /\ Len(remaining) = 0
    /\ chunkPc' = "done"
    /\ UNCHANGED <<text, maxLength, remaining, chunks>>
    /\ UNCHANGED nonChunkVars

ChunkNext ==
    \/ ChunkReturnWhole
    \/ ChunkEnterLoop
    \/ ChunkPushLast
    \/ ChunkSplit
    \/ ChunkLoopExit

-----------------------------------------------------------------------------
(* types.ts (part_001): raw Google Chat events, as parsed from JSON *)

UsersPrefix == <<"u", "s", "e", "r", "s", "/">>
SpacesPrefix == <<"s", "p", "a", "c", "e", "s", "/">>

\* part_001 37-59: GoogleChatMessage; every field may be missing in the JSON
MkSender(name, displayName, email, type) ==
    [name |-> name, displayName |-> displayName, email |-> email, type |-> type]

MkSpace(name, type, displayName) ==
    [name |-> name, type |-> type, displayName |-> displayName]

MkMessage(name, sender, createTime, txt, argumentText, space, thread) ==
    [name |-> name, sender |-> sender, createTime |-> createTime, text |-> txt,
     argumentText |-> argumentText, space |-> space, thread |-> thread]

\* part_001 61-75: GoogleChatEvent (the fields the adapter reads); chat is the
\* field of the other payload shape, which a GoogleChatEvent does not have
MkEvent(type, message, user) ==
    [type |-> type, message |-> message, user |-> user, chat |-> None]

\* part_001 93-124: the payload shape the standalone webhook script reads:
\* no type and no message at top level, but event.chat with messagePayload
\* (holding the message), addedToSpacePayload and user
MkPushEvent(messagePayload, addedToSpacePayload, user) ==
    [type |-> None, message |-> None, user |-> None,
     chat |-> Some([messagePayload |-> messagePayload,
                    addedToSpacePayload |-> addedToSpacePayload,
                    user |-> user])]

\* the payload of that shape for the logical event of a GoogleChatEvent
PushShapeOf(event) ==
    MkPushEvent(IF event.type = Some("MESSAGE") /\ IsSome(event.message)
                THEN Some([message |-> event.message]) ELSE None,
                IF event.type = Some("ADDED_TO_SPACE") THEN Some(TRUE) ELSE None,
                event.user)

EventTypes == {"MESSAGE", "ADDED_TO_SPACE", "REMOVED_FROM_SPACE", "CARD_CLICKED"}

\* new Date(createTime).getTime(): milliseconds, or NaN (None) for a missing
\* or unparsable date
ValidCreateTime == <<"1", "9", "7", "0", "-", "0", "1", "-", "0", "1", "T",
                     "0", "0", ":", "0", "0", ":", "0", "1", "Z">>
DateGetTime(createTime) ==
    IF createTime = Some(ValidCreateTime) THEN Some(1000) ELSE None

\* the sets the raw events of the model are drawn from
SenderNames == {None, Some(UsersPrefix \o <<"7">>), Some(<<"7">>)}
SenderEmails == {None, Some(<<"a">>), Some(<<"A">>), Some(<<" ", "a">>), Some(<<"b">>)}
SenderTypes == {Some("HUMAN"), Some("BOT")}
SpaceNames == {None, Some(SpacesPrefix \o <<"S">>), Some(SpacesPrefix \o <<"T">>)}
SpaceTypes == {Some("DM"), Some("ROOM")}
SpaceDisplayNames == {None, Some(<<>>), Some(<<"R">>)}
Threads == {None, Some([name |-> Some(<<"t">>)])}
Texts == {None, Some(<<"h", "i">>)}
ArgumentTexts == {None, Some(<<>>), Some(<<"g", "o">>)}
CreateTimes == {Some(ValidCreateTime), Some(<<"x">>)}
Users == {None, Some([displayName |-> Some(<<"A", "n", "n">>)])}

SendersOf(names, emails, types) ==
    {None} \cup {Some(MkSender(n, Some(<<"A", "n", "n">>), e, t)) :
                    n \in names, e \in emails, t \in types}

SpacesOf(names, types, displayNames) ==
    {None} \cup {Some(MkSpace(n, t, d)) : n \in names, t \in types, d \in displayNames}

MessagesOf(senders, spaces, createTimes, texts, argumentTexts, threads) ==
    {MkMessage(Some(<<"m">>), s, c, t, a, sp, th) :
        s \in senders, sp \in spaces, c \in createTimes, t \in texts,
        a \in argumentTexts, th \in threads}

EventsOf(types, messages, users) ==
    {MkEvent(t, m, u) : t \in types, m \in {None} \cup {Some(x) : x \in messages},
                        u \in users}

\* every raw event of the model: any type (or none), with or without a
\* message, the message with or without sender, space and their fields
RawEvents ==
    EventsOf({None} \cup {Some(t) : t \in EventTypes},
             MessagesOf(SendersOf(SenderNames, SenderEmails, SenderTypes),
                        SpacesOf(SpaceNames, SpaceTypes, SpaceDisplayNames),
                        CreateTimes, Texts, ArgumentTexts, Threads),
             {None})

-----------------------------------------------------------------------------
(* monitor (part_002) and webhook-server.ts: normalizeMessage *)

\* a call's outcome: it threw, or it returned value (None is null)
Threw == [threw |-> TRUE, value |-> None]
Returned(v) == [threw |-> FALSE, value |-> v]

\* part_002 56-80: the object normalizeMessage builds
CanonicalOf(event, accountId) ==
    LET msg == Get(event.message)
        sender == Get(msg.sender)
        space == Get(msg.space)
        spaceId == Replace(Get(space.name), SpacesPrefix, <<>>)
    IN  [provider |-> "googlechat",
         accountId |-> accountId,
         messageId |-> msg.name,
         timestamp |-> DateGetTime(msg.createTime),
         sender |-> [id |-> Replace(Get(sender.name), UsersPrefix, <<>>),
                     name |-> sender.displayName,
                     email |-> sender.email],
         chat |-> [id |-> spaceId,
                   name |-> IF Truthy(space.displayName)
                            THEN Get(space.displayName) ELSE spaceId,
                   type |-> IF space.type = Some("DM") THEN "dm" ELSE "group"],
         thread |-> IF IsSome(msg.thread)
                    THEN Some([id |-> Get(msg.thread).name]) ELSE None,
         content |-> [text |-> IF Truthy(msg.argumentText) THEN Get(msg.argumentText)
                               ELSE IF Truthy(msg.text) THEN Get(msg.text)
                               ELSE <<>>],
         raw |-> event]

\* part_002 38-81. Reading a property of undefined throws a TypeError:
\* msg.sender.type (49), msg.space.name.replace (53), msg.sender.name.replace (62)
normalizeMessage(event, accountId) ==
    IF event.type # Some("MESSAGE") \/ ~IsSome(event.message) THEN Returned(None)
    ELSE LET msg == Get(event.message)
         IN  IF ~IsSome(msg.sender) THEN Threw
             ELSE IF Get(msg.sender).type = Some("BOT") THEN Returned(None)
             ELSE IF ~IsSome(msg.space) THEN Threw
             ELSE IF ~IsSome(Get(msg.space).name) THEN Threw
             ELSE IF ~IsSome(Get(msg.sender).name) THEN Threw
             ELSE Returned(Some(CanonicalOf(event, accountId)))

\* webhook-server.ts 39-82 without the check of the sender type (50)
webhookNormalizeMessageForwardsBots(event, accountId) ==
    IF event.type # Some("MESSAGE") \/ ~IsSome(event.message) THEN Returned(None)
    ELSE LET msg == Get(event.message)
         IN  IF ~IsSome(msg.sender) THEN Threw
             ELSE IF ~IsSome(msg.space) THEN Threw
             ELSE IF ~IsSome(Get(msg.space).name) THEN Threw
             ELSE IF ~IsSome(Get(msg.sender).name) THEN Threw
             ELSE Returned(Some(CanonicalOf(event, accountId)))

\* webhook-server.ts 39-82: the same function, declared again in that file
webhookNormalizeMessage(event, accountId) ==
    IF event.type # Some("MESSAGE") \/ ~IsSome(event.message) THEN Returned(None)
    ELSE LET msg == Get(event.message)
         IN  IF ~IsSome(msg.sender) THEN Threw
             ELSE IF Get(msg.sender).type = Some("BOT") THEN Returned(None)
             ELSE IF ~IsSome(msg.space) THEN Threw
             ELSE IF ~IsSome(Get(msg.space).name) THEN Threw
             ELSE IF ~IsSome(Get(msg.sender).name) THEN Threw
             ELSE Returned(Some(CanonicalOf(event, accountId)))

DefaultAccountId == <<"d", "e", "f", "a", "u", "l", "t">>

NotRun == [threw |-> FALSE, value |-> None]

NormInit ==
    /\ normEvent \in RawEvents
    /\ normVia = "none"
    /\ normResult = NotRun

NormIdle ==
    /\ normEvent = MkEvent(None, None, None)
    /\ normVia = "idle"
    /\ normResult = NotRun

\* the pull handler's call, part_002 136
NormalizePull ==
    /\ normVia = "none"
    /\ normVia' = "pull"
    /\ normResult' = normalizeMessage(normEvent, DefaultAccountId)
    /\ UNCHANGED normEvent
    /\ UNCHANGED nonNormVars

\* the webhook handler's call, webhook-server.ts 124
NormalizeWebhook ==
    /\ normVia = "none"
    /\ normVia' = "webhook"
    /\ normResult' = webhookNormalizeMessage(normEvent, DefaultAccountId)
    /\ UNCHANGED normEvent
    /\ UNCHANGED nonNormVars

\* the webhook handler's call, webhook-server.ts 124, when the request body
\* has the shape of part_001 93-124
NormalizePush ==
    /\ normVia = "none"
    /\ normVia' = "push"
    /\ normResult' = webhookNormalizeMessage(PushShapeOf(normEvent), DefaultAccountId)
    /\ UNCHANGED normEvent
    /\ UNCHANGED nonNormVars

NormNext == NormalizePull \/ NormalizeWebhook \/ NormalizePush

-----------------------------------------------------------------------------
(* accounts.ts, types.ts: account configuration *)

\* part_001 3-30: GoogleChatAccountConfig, every field optional
MkConfig(enabled, projectId, subscriptionName, credentialsPath, dmPolicy, allowFrom, spacePolicy, allowSpaces, textChunkLimit, messagePrefix) ==
    [name |-> None, enabled |-> enabled, projectId |-> projectId,
     subscriptionName |-> subscriptionName, credentialsPath |-> credentialsPath,
     dmPolicy |-> dmPolicy, allowFrom |-> allowFrom, spacePolicy |-> spacePolicy,
     allowSpaces |-> allowSpaces, textChunkLimit |-> textChunkLimit,
     messagePrefix |-> messagePrefix]

\* accounts.ts 78-86 with enabled taken from the merged configuration alone
ResolvedFromMergedEnabledOnly(accountId, baseEnabled, merged) ==
    [accountId |-> accountId,
     enabled |-> merged.enabled # Some(FALSE),
     name |-> IF Truthy(merged.name) /\ Len(Trim(Get(merged.name))) > 0
              THEN Some(Trim(Get(merged.name))) ELSE None,
     projectId |-> OrElse(merged.projectId, <<>>),
     subscriptionName |-> OrElse(merged.subscriptionName, <<>>),
     credentialsPath |-> merged.credentialsPath,
     config |-> merged]

\* accounts.ts 8-16, 78-86: ResolvedGoogleChatAccount built from a merged config
ResolvedFrom(accountId, baseEnabled, merged) ==
    [accountId |-> accountId,
     enabled |-> baseEnabled /\ merged.enabled # Some(FALSE),
     name |-> IF Truthy(merged.name) /\ Len(Trim(Get(merged.name))) > 0
              THEN Some(Trim(Get(merged.name))) ELSE None,
     projectId |-> OrElse(merged.projectId, <<>>),
     subscriptionName |-> OrElse(merged.subscriptionName, <<>>),
     credentialsPath |-> merged.credentialsPath,
     config |-> merged]

\* the whole configuration: cfg.googlechat is absent, or holds the base
\* (provider-wide) fields and, optionally, the accounts in key order
MkCfg(base, accounts) == [googlechat |-> Some([base |-> base, accounts |-> accounts])]
NoGoogleChatCfg == [googlechat |-> None]
EmptyConfig == MkConfig(None, None, None, None, None, None, None, None, None, None)

\* accounts.ts 39-51: resolveAccountConfig, accounts[accountId]
resolveAccountConfig(cfg, accountId) ==
    IF ~IsSome(cfg.googlechat) \/ ~IsSome(Get(cfg.googlechat).accounts) THEN None
    ELSE LET accounts == Get(Get(cfg.googlechat).accounts)
             hits == {i \in 1..Len(accounts) : accounts[i].id = accountId}
         IN  IF hits = {} THEN None ELSE Some(accounts[CHOOSE i \in hits : TRUE].config)

\* an override that replaces the base wholesale as soon as it sets a field
SpreadOverWholesale(base, over) ==
    IF \E f \in DOMAIN over : IsSome(over[f]) THEN over ELSE base

\* { ...base, ...account }: a field the override sets wins
SpreadOver(base, over) ==
    [f \in DOMAIN base |-> IF IsSome(over[f]) THEN over[f] ELSE base[f]]

\* accounts.ts 53-63 without the base level
mergeGoogleChatAccountConfigAccountOnly(cfg, accountId) ==
    LET override == resolveAccountConfig(cfg, accountId)
    IN  IF IsSome(override) THEN Get(override) ELSE EmptyConfig

\* accounts.ts 53-63: mergeGoogleChatAccountConfig
mergeGoogleChatAccountConfig(cfg, accountId) ==
    LET base == IF IsSome(cfg.googlechat) THEN Get(cfg.googlechat).base ELSE EmptyConfig
        override == resolveAccountConfig(cfg, accountId)
    IN  SpreadOver(base, IF IsSome(override) THEN Get(override) ELSE EmptyConfig)

\* routing/session-key.js normalizeAccountId: an absent id is the default id
normalizeAccountId(accountId) == OrElse(accountId, DefaultAccountId)

\* accounts.ts 65-90: resolveGoogleChatAccount
resolveGoogleChatAccount(cfg, accountId) ==
    LET baseEnabled == ~(IsSome(cfg.googlechat)
                         /\ Get(cfg.googlechat).base.enabled = Some(FALSE))
        normalized == normalizeAccountId(accountId)
    IN  ResolvedFrom(normalized, baseEnabled,
                     mergeGoogleChatAccountConfig(cfg, normalized))

\* array.includes(x)
Includes(list, x) == \E i \in 1..Len(list) : list[i] = x

\* accounts.ts 18-25: listConfiguredAccountIds: Object.keys(accounts) in
\* insertion order, without the empty key
listConfiguredAccountIds(c) ==
    IF ~IsSome(c.googlechat) \/ ~IsSome(Get(c.googlechat).accounts) THEN <<>>
    ELSE LET accounts == Get(Get(c.googlechat).accounts)
             keys == [i \in 1..Len(accounts) |-> accounts[i].id]
         IN  SelectSeq(keys, LAMBDA k : Len(k) > 0)

\* the letters of the account ids of the model, in collation order
IdLetters == <<"a", "b", "d", "e", "f", "l", "t", "u">>
LetterRank(ch) == CHOOSE i \in 1..Len(IdLetters) : IdLetters[i] = ch

\* a.localeCompare(b) on strings of lower-case letters
RECURSIVE localeCompare(_, _)
localeCompare(a, b) ==
    IF Len(a) = 0 /\ Len(b) = 0 THEN 0
    ELSE IF Len(a) = 0 THEN -1
    ELSE IF Len(b) = 0 THEN 1
    ELSE IF a[1] = b[1] THEN localeCompare(Tail(a), Tail(b))
    ELSE IF LetterRank(a[1]) < LetterRank(b[1]) THEN -1 ELSE 1

\* accounts.ts 27-31 without the sort (30)
listGoogleChatAccountIdsUnsorted(c) ==
    LET ids == listConfiguredAccountIds(c)
    IN  IF Len(ids) = 0 THEN <<DefaultAccountId>> ELSE ids

\* accounts.ts 27-31: listGoogleChatAccountIds
listGoogleChatAccountIds(c) ==
    LET ids == listConfiguredAccountIds(c)
    IN  IF Len(ids) = 0 THEN <<DefaultAccountId>>
        ELSE SortSeq(ids, LAMBDA a, b : localeCompare(a, b) < 0)

\* accounts.ts 33-37: resolveDefaultGoogleChatAccountId
resolveDefaultGoogleChatAccountId(c) ==
    LET ids == listGoogleChatAccountIds(c)
    IN  IF Includes(ids, DefaultAccountId) THEN DefaultAccountId
        ELSE IF Len(ids) > 0 THEN ids[1] ELSE DefaultAccountId

\* accounts.ts 92-98: listEnabledGoogleChatAccounts
listEnabledGoogleChatAccounts(c) ==
    LET ids == listGoogleChatAccountIds(c)
        resolved == [i \in 1..Len(ids) |-> resolveGoogleChatAccount(c, Some(ids[i]))]
    IN  SelectSeq(resolved, LAMBDA a : a.enabled)

\* part_000 65-66: config.isConfigured
isConfigured(acct) ==
    Len(Trim(acct.projectId)) > 0 /\ Len(Trim(acct.subscriptionName)) > 0

\* the configurations of the model. Account keys are drawn from the empty
\* key, two ids and the default id, in any insertion order; the base level and
\* each account set, or leave unset, the enabled flag and the project id
AccountKeys == {<<>>, <<"a">>, <<"b">>, DefaultAccountId}

BaseConfigs ==
    {MkConfig(en, pid, sub, None, None, None, None, None, None, Some(<<"P">>)) :
        en \in {None, Some(TRUE), Some(FALSE)},
        pid \in {None, Some(<<"p">>), Some(<<" ">>)},
        sub \in {None, Some(<<"s">>)}}

OverrideConfigs ==
    {MkConfig(en, pid, None, None, None, None, None, None, None, None) :
        en \in {None, Some(TRUE), Some(FALSE)}, pid \in {None, Some(<<"q">>)}}

\* the values of googlechat.accounts with n keys
AccountsOfSize(n) ==
    {a \in [1..n -> [id : AccountKeys, config : OverrideConfigs]] :
        \A i, j \in 1..n : a[i].id = a[j].id => i = j}

AccountCfgs ==
    {NoGoogleChatCfg}
    \cup {MkCfg(b, None) : b \in BaseConfigs}
    \cup {MkCfg(b, Some(a)) :
            b \in BaseConfigs, a \in UNION {AccountsOfSize(n) : n \in 0..MaxAccounts}}

\* the account ids resolveGoogleChatAccount is called with
ResolveArguments == {None} \cup {Some(k) : k \in AccountKeys \ {<<>>}}

\* one call of an account function and what it returned
MkOp(op, arg, result) == [op |-> op, arg |-> arg, result |-> result]
NoOp == MkOp("none", None, None)

\* part_000 41: config.listAccountIds
ListAccountIds ==
    /\ cfgOp = NoOp
    /\ cfgOp' = MkOp("listAccountIds", None, listGoogleChatAccountIds(appCfg))
    /\ UNCHANGED <<appCfg, monitors>>
    /\ UNCHANGED nonAccountVars

\* part_000 44: config.defaultAccountId
ResolveDefaultAccountId ==
    /\ cfgOp = NoOp
    /\ cfgOp' = MkOp("defaultAccountId", None, resolveDefaultGoogleChatAccountId(appCfg))
    /\ UNCHANGED <<appCfg, monitors>>
    /\ UNCHANGED nonAccountVars

\* part_000 42-43: config.resolveAccount
ResolveAccount ==
    /\ cfgOp = NoOp
    /\ \E id \in ResolveArguments :
          cfgOp' = MkOp("resolveAccount", id, resolveGoogleChatAccount(appCfg, id))
    /\ UNCHANGED <<appCfg, monitors>>
    /\ UNCHANGED nonAccountVars

\* accounts.ts 92-98
ListEnabledAccounts ==
    /\ cfgOp = NoOp
    /\ cfgOp' = MkOp("listEnabledAccounts", None, listEnabledGoogleChatAccounts(appCfg))
    /\ UNCHANGED <<appCfg, monitors>>
    /\ UNCHANGED nonAccountVars

AccountsInit ==
    /\ appCfg \in AccountCfgs
    /\ cfgOp = NoOp
    /\ monitors = <<>>

AccountsIdle ==
    /\ appCfg = NoGoogleChatCfg
    /\ cfgOp = MkOp("idle", None, None)
    /\ monitors = <<>>

AccountsNext ==
    \/ ListAccountIds
    \/ ResolveDefaultAccountId
    \/ ResolveAccount
    \/ ListEnabledAccounts

-----------------------------------------------------------------------------
(* monitor (part_002): checkMessagePolicy *)

\* part_002 83-112 with a default branch that admits
checkMessagePolicyOpenByDefault(message, acct) ==
    LET policy == IF message.chat.type = "dm"
                  THEN OrElse(acct.config.dmPolicy, "pairing")
                  ELSE OrElse(acct.config.spacePolicy, "disabled")
    IN  CASE policy = "disabled" -> FALSE
          [] policy = "open" -> TRUE
          [] policy = "allowlist" ->
                IF message.chat.type = "dm"
                THEN Includes(OrElse(acct.config.allowFrom, <<>>),
                              OrElse(message.sender.email, <<>>))
                ELSE Includes(OrElse(acct.config.allowSpaces, <<>>),
                              message.chat.id)
          [] policy = "pairing" -> FALSE
          [] OTHER -> TRUE

\* part_002 83-112 with the disabled and open cases falling through to the
\* allowlist case
checkMessagePolicyFallThrough(message, acct) ==
    LET policy == IF message.chat.type = "dm"
                  THEN OrElse(acct.config.dmPolicy, "pairing")
                  ELSE OrElse(acct.config.spacePolicy, "disabled")
    IN  CASE policy \in {"disabled", "open", "allowlist"} ->
                IF message.chat.type = "dm"
                THEN Includes(OrElse(acct.config.allowFrom, <<>>),
                              OrElse(message.sender.email, <<>>))
                ELSE Includes(OrElse(acct.config.allowSpaces, <<>>),
                              message.chat.id)
          [] policy = "pairing" -> FALSE
          [] OTHER -> FALSE

\* part_002 83-112
checkMessagePolicy(message, acct) ==
    LET policy == IF message.chat.type = "dm"
                  THEN OrElse(acct.config.dmPolicy, "pairing")
                  ELSE OrElse(acct.config.spacePolicy, "disabled")
    IN  CASE policy = "disabled" -> FALSE
          [] policy = "open" -> TRUE
          [] policy = "allowlist" ->
                IF message.chat.type = "dm"
                THEN Includes(OrElse(acct.config.allowFrom, <<>>),
                              OrElse(message.sender.email, <<>>))
                ELSE Includes(OrElse(acct.config.allowSpaces, <<>>),
                              message.chat.id)
          [] policy = "pairing" -> FALSE
          [] OTHER -> FALSE

\* part_000 32: pairing.normalizeAllowEntry
normalizeAllowEntry(entry) == Trim(ToLowerCase(entry))

\* the policy values a configuration file can hold: unset, the four kinds, and
\* a value that is none of them
PolicyValues == {None, Some("disabled"), Some("open"), Some("allowlist"),
                 Some("pairing"), Some("bogus")}
KnownPolicies == {"disabled", "open", "allowlist", "pairing"}
AllowFromValues == {None, Some(<<>>), Some(<< <<"a">> >>), Some(<< <<"b">>, <<"a">> >>)}
AllowSpacesValues == {None, Some(<<>>), Some(<< <<"S">> >>)}

PolicyAccounts ==
    {ResolvedFrom(DefaultAccountId, TRUE,
                  MkConfig(None, Some(<<"p">>), Some(<<"s">>), None, dm, af, sp, as, None, None)) :
        dm \in PolicyValues, af \in AllowFromValues,
        sp \in PolicyValues, as \in AllowSpacesValues}

\* canonical messages as the normalizer produces them: human senders with the
\* email spellings of SenderEmails, in direct and group chats
PolicyMessages ==
    {Get(normalizeMessage(e, DefaultAccountId).value) :
        e \in EventsOf({Some("MESSAGE")},
                       MessagesOf(SendersOf({Some(UsersPrefix \o <<"7">>)}, SenderEmails,
                                            {Some("HUMAN")}) \ {None},
                                  SpacesOf({Some(SpacesPrefix \o <<"S">>),
                                            Some(SpacesPrefix \o <<"T">>)},
                                           SpaceTypes, {None}) \ {None},
                                  {Some(ValidCreateTime)}, {Some(<<"h", "i">>)},
                                  {None}, {None}) ,
                       {None}) \ {MkEvent(Some("MESSAGE"), None, None)}}

PolicyInit ==
    /\ polMessage \in PolicyMessages
    /\ polAccount \in PolicyAccounts
    /\ polResult = None

PolicyIdle ==
    /\ polMessage = None
    /\ polAccount = None
    /\ polResult = None

\* one evaluation, part_002 139
EvaluatePolicy ==
    /\ polResult = None
    /\ polResult' = Some(checkMessagePolicy(polMessage, polAccount))
    /\ UNCHANGED <<polMessage, polAccount>>
    /\ UNCHANGED nonPolicyVars

PolicyNext == EvaluatePolicy

-----------------------------------------------------------------------------
(* The account and the events of the transports *)

\* the accounts the transports are started with: a DM allowlist with groups
\* disabled, open groups with the DM policy unset, and one without project id
IngestAccounts ==
    {ResolvedFrom(DefaultAccountId, TRUE,
                  MkConfig(None, c[1], Some(<<"s">>), None, c[2], Some(<< <<"a">> >>),
                           c[3], Some(<< <<"S">> >>), None, None)) :
        c \in {<<Some(<<"p">>), Some("allowlist"), None>>,
               <<Some(<<"p">>), None, Some("open")>>,
               <<None, Some("allowlist"), None>>}}

\* a MESSAGE event of the type GoogleChatEvent declares
MessageEvent(email, senderType, spaceType) ==
    MkEvent(Some("MESSAGE"),
            Some(MkMessage(Some(<<"m">>),
                           Some(MkSender(Some(UsersPrefix \o <<"7">>),
                                         Some(<<"A", "n", "n">>), email, senderType)),
                           Some(ValidCreateTime), Some(<<"h", "i">>), None,
                           Some(MkSpace(Some(SpacesPrefix \o <<"S">>), spaceType, None)),
                           None)),
            None)

\* the events the chat backend sends: messages from listed and unlisted
\* humans and from a bot, in direct and group chats, messages with the sender
\* or the space missing, and events of other types, with and without a message
IngestEvents ==
    {MessageEvent(Some(<<"a">>), Some("HUMAN"), Some("DM")),
     MessageEvent(Some(<<"b">>), Some("HUMAN"), Some("DM")),
     MessageEvent(Some(<<"a">>), Some("HUMAN"), Some("ROOM")),
     MessageEvent(Some(<<"a">>), Some("BOT"), Some("DM")),
     MkEvent(Some("MESSAGE"), None, None),
     MkEvent(Some("MESSAGE"),
             Some(MkMessage(Some(<<"m">>), None, Some(ValidCreateTime),
                            Some(<<"h", "i">>), None,
                            Some(MkSpace(Some(SpacesPrefix \o <<"S">>), Some("DM"), None)),
                            None)),
             None),
     MkEvent(Some("MESSAGE"),
             Some(MkMessage(Some(<<"m">>),
                            Some(MkSender(Some(UsersPrefix \o <<"7">>),
                                          Some(<<"A", "n", "n">>), Some(<<"a">>),
                                          Some("HUMAN"))),
                            Some(ValidCreateTime), Some(<<"h", "i">>), None, None, None)),
             None),
     MkEvent(Some("ADDED_TO_SPACE"), None, Some([displayName |-> Some(<<"A", "n", "n">>)])),
     MkEvent(Some("CARD_CLICKED"),
             MessageEvent(Some(<<"a">>), Some("HUMAN"), Some("DM")).message, None)}

\* what a Pub/Sub message's data holds: text that is no JSON, or the JSON of
\* null, of a number or string, or of an event object
MkData(kind, event) == [kind |-> kind, event |-> event]

PullPayloads ==
    {MkData("malformed", None), MkData("null", None), MkData("scalar", None)}
    \cup {MkData("object", Some(e)) : e \in IngestEvents}

OptionsInit ==
    /\ account \in IngestAccounts
    /\ onMessageProvided \in BOOLEAN

OptionsIdle ==
    /\ account = None
    /\ onMessageProvided = FALSE

-----------------------------------------------------------------------------
(* monitor (part_002): monitorGoogleChatProvider *)

\* part_002 134: JSON.parse(message.data.toString())
JsonParse(data) == IF data.kind = "malformed" THEN Threw ELSE Returned(Some(data))

\* part_002 136: normalizeMessage on what JSON.parse returned. event.type on
\* null throws; on a number or a string it is undefined
normalizeParsed(value, accountId) ==
    IF value.kind = "null" THEN Threw
    ELSE IF value.kind = "scalar" THEN Returned(None)
    ELSE normalizeMessage(Get(value.event), accountId)

\* the record of one run of messageHandler
MkRun(handled, threw, normalized, evaluated, allowed, forwarded, acks, nacks) ==
    [handled |-> handled, threw |-> threw, normalized |-> normalized,
     evaluated |-> evaluated, allowed |-> allowed, forwarded |-> forwarded,
     acks |-> acks, nacks |-> nacks]

NoRun == MkRun(FALSE, FALSE, FALSE, FALSE, FALSE, FALSE, 0, 0)

\* part_002 132-157 with the ack moved into the allowed branch
messageHandlerAckOnAllow(data, acct) ==
    LET parsed == JsonParse(data)
        norm == IF parsed.threw THEN Threw
                ELSE normalizeParsed(Get(parsed.value), acct.accountId)
    IN  IF norm.threw THEN MkRun(TRUE, TRUE, FALSE, FALSE, FALSE, FALSE, 0, 1)
        ELSE IF ~IsSome(norm.value)
             THEN MkRun(TRUE, FALSE, FALSE, FALSE, FALSE, FALSE, 0, 0)
        ELSE LET allowed == checkMessagePolicy(Get(norm.value), acct)
             IN  MkRun(TRUE, FALSE, TRUE, TRUE, allowed, allowed,
                       IF allowed THEN 1 ELSE 0, 0)

\* part_002 132-157: messageHandler, run on one message
messageHandler(data, acct) ==
    LET parsed == JsonParse(data)
        norm == IF parsed.threw THEN Threw
                ELSE normalizeParsed(Get(parsed.value), acct.accountId)
    IN  IF norm.threw THEN MkRun(TRUE, TRUE, FALSE, FALSE, FALSE, FALSE, 0, 1)
        ELSE IF ~IsSome(norm.value)
             THEN MkRun(TRUE, FALSE, FALSE, FALSE, FALSE, FALSE, 1, 0)
        ELSE LET allowed == checkMessagePolicy(Get(norm.value), acct)
             IN  MkRun(TRUE, FALSE, TRUE, TRUE, allowed, allowed, 1, 0)

\* part_002 121: the message of the configuration error
ConfigErrorPrefix ==
    <<"G", "o", "o", "g", "l", "e", " ", "C", "h", "a", "t", " ", "a", "c",
      "c", "o", "u", "n", "t", " ">>
ConfigErrorSuffix ==
    <<" ", "m", "i", "s", "s", "i", "n", "g", " ", "p", "r", "o", "j", "e",
      "c", "t", "I", "d", " ", "o", "r", " ", "s", "u", "b", "s", "c", "r",
      "i", "p", "t", "i", "o", "n", "N", "a", "m", "e">>

\* part_002 114-186 with the check of the project id only
monitorStartChecksProjectOnly(acct, alreadyAborted) ==
    IF Len(acct.projectId) = 0
    THEN [threw |-> TRUE,
          error |-> Some(ConfigErrorPrefix \o acct.accountId \o ConfigErrorSuffix),
          listening |-> FALSE, abortListener |-> FALSE]
    ELSE [threw |-> FALSE, error |-> None,
          listening |-> ~alreadyAborted, abortListener |-> ~alreadyAborted]

\* part_002 114-186: monitorGoogleChatProvider up to its return: it throws
\* for an account without project id or subscription name (119-123), before
\* the subscription is made (125-130); otherwise the handlers are registered
\* (166-167), and cleanup runs at once when the signal is already aborted and
\* is subscribed to it otherwise (176-180)
monitorStart(acct, alreadyAborted) ==
    IF Len(acct.projectId) = 0 \/ Len(acct.subscriptionName) = 0
    THEN [threw |-> TRUE,
          error |-> Some(ConfigErrorPrefix \o acct.accountId \o ConfigErrorSuffix),
          listening |-> FALSE, abortListener |-> FALSE]
    ELSE [threw |-> FALSE, error |-> None,
          listening |-> ~alreadyAborted, abortListener |-> ~alreadyAborted]

PullInit ==
    /\ pullStatus = "starting"
    /\ pullListening = FALSE
    /\ aborted = FALSE
    /\ abortListener = FALSE
    /\ pullLast = [data |-> MkData("none", None), run |-> NoRun]

PullIdle ==
    /\ pullStatus = "idle"
    /\ pullListening = FALSE
    /\ aborted = FALSE
    /\ abortListener = FALSE
    /\ pullLast = [data |-> MkData("none", None), run |-> NoRun]

\* part_002 119-123: the start throws for an account without project id or
\* subscription name
PullStartFails ==
    /\ pullStatus = "starting"
    /\ monitorStart(account, aborted).threw
    /\ pullStatus' = "failed"
    /\ UNCHANGED <<pullListening, aborted, abortListener, pullLast>>
    /\ UNCHANGED <<optionVars, webhookVars, nonIngestVars>>

\* part_002 125-186 without the test of abortSignal.aborted (176): cleanup is
\* only subscribed to the signal
PullStartIgnoresAbortedSignal ==
    /\ pullStatus = "starting"
    /\ Len(account.projectId) > 0 /\ Len(account.subscriptionName) > 0
    /\ pullStatus' = "started"
    /\ pullListening' = TRUE
    /\ abortListener' = ~aborted
    /\ UNCHANGED <<aborted, pullLast>>
    /\ UNCHANGED <<optionVars, webhookVars, nonIngestVars>>

\* part_002 125-186: the handlers are registered; cleanup runs at once when the
\* signal is already aborted, and is subscribed to it otherwise
PullStart ==
    /\ pullStatus = "starting"
    /\ ~monitorStart(account, aborted).threw
    /\ pullStatus' = "started"
    /\ pullListening' = monitorStart(account, aborted).listening
    /\ abortListener' = monitorStart(account, aborted).abortListener
    /\ UNCHANGED <<aborted, pullLast>>
    /\ UNCHANGED <<optionVars, webhookVars, nonIngestVars>>

\* the broker delivers a message to the registered messageHandler, which has
\* no await and so runs to its end, part_002 132-157
PullDeliver ==
    /\ pullListening
    /\ \E data \in PullPayloads :
          pullLast' = [data |-> data, run |-> messageHandler(data, account)]
    /\ UNCHANGED <<pullStatus, pullListening, aborted, abortListener>>
    /\ UNCHANGED <<optionVars, webhookVars, nonIngestVars>>

\* part_002 170-174, 179 with a cleanup that also discards the message being
\* handled
AbortFiresDropsPending ==
    /\ pullStatus # "idle"
    /\ ~aborted
    /\ aborted' = TRUE
    /\ abortListener' = FALSE
    /\ pullListening' = IF abortListener THEN FALSE ELSE pullListening
    /\ pullLast' = IF abortListener /\ ~pullLast.run.handled
                   THEN [data |-> MkData("none", None), run |-> NoRun]
                   ELSE pullLast
    /\ UNCHANGED pullStatus
    /\ UNCHANGED <<optionVars, webhookVars, nonIngestVars>>

\* the abort signal fires; a subscribed cleanup (once) removes the listeners,
\* part_002 170-174, 179
AbortFires ==
    /\ pullStatus # "idle"
    /\ ~aborted
    /\ aborted' = TRUE
    /\ abortListener' = FALSE
    /\ pullListening' = IF abortListener THEN FALSE ELSE pullListening
    /\ UNCHANGED <<pullStatus, pullLast>>
    /\ UNCHANGED <<optionVars, webhookVars, nonIngestVars>>

\* the caller invokes the returned cleanup function, part_002 170-174, 186
PullStopCalled ==
    /\ pullStatus = "started"
    /\ pullListening' = FALSE
    /\ UNCHANGED <<pullStatus, aborted, abortListener, pullLast>>
    /\ UNCHANGED <<optionVars, webhookVars, nonIngestVars>>

\* messageHandler taken in two steps, its start and its acknowledgement, so
\* that the abort signal may fire between them. As written the handler has no
\* await and the event loop cannot run cleanup in between; the steps cover
\* that and the handler once the routing of part_002 141-142 is wired in.
InFlight == pullLast.data.kind # "none" /\ ~pullLast.run.handled

\* part_002 132-134, 166: the broker hands a message to the registered
\* messageHandler
PullHandlerStarts ==
    /\ pullListening
    /\ ~InFlight
    /\ \E data \in PullPayloads : pullLast' = [data |-> data, run |-> NoRun]
    /\ UNCHANGED <<pullStatus, pullListening, aborted, abortListener>>
    /\ UNCHANGED <<optionVars, webhookVars, nonIngestVars>>

\* part_002 136-156: the started handler reaches its ack or nack, whatever
\* happened to the listeners meanwhile
PullHandlerSettles ==
    /\ InFlight
    /\ pullLast' = [pullLast EXCEPT !.run = messageHandler(pullLast.data, account)]
    /\ UNCHANGED <<pullStatus, pullListening, aborted, abortListener>>
    /\ UNCHANGED <<optionVars, webhookVars, nonIngestVars>>

PullNext ==
    \/ PullStartFails
    \/ PullStart
    \/ PullHandlerStarts
    \/ PullHandlerSettles
    \/ AbortFires
    \/ PullStopCalled

-----------------------------------------------------------------------------
(* webhook-server.ts: startGoogleChatWebhookServer *)

\* one POST /webhook/googlechat request: its body, where its handler stands,
\* what it did, the exception it caught, and the responses written to it
MkRequest(stage, event, normalized, evaluated, allowed, onMessageCalled, error, responses) ==
    [stage |-> stage, event |-> event, normalized |-> normalized,
     evaluated |-> evaluated, allowed |-> allowed,
     onMessageCalled |-> onMessageCalled, error |-> error, responses |-> responses]

NoRequest == MkRequest("free", None, FALSE, FALSE, FALSE, FALSE, None, <<>>)

\* res.json(body) and res.status(500).json(body); a body has a text, an error
\* or neither ({})
MkResponse(status, body) == [status |-> status, body |-> body]
MkReplyBody(txt, error) == [text |-> txt, error |-> error]

\* webhook-server.ts 118
WelcomeText ==
    <<"H", "e", "l", "l", "o", "!", " ", "I", "'", "m", " ", "C", "l", "a",
      "w", "d", "b", "o", "t", ",", " ", "y", "o", "u", "r", " ", "p", "e",
      "r", "s", "o", "n", "a", "l", " ", "A", "I", " ", "a", "s", "s", "i",
      "s", "t", "a", "n", "t", ".", " ", "S", "e", "n", "d", " ", "m", "e",
      " ", "a", " ", "m", "e", "s", "s", "a", "g", "e", " ", "t", "o", " ",
      "g", "e", "t", " ", "s", "t", "a", "r", "t", "e", "d", "!">>

\* webhook-server.ts 139
EchoPrefix ==
    <<"G", "o", "t", " ", "y", "o", "u", "r", " ", "m", "e", "s", "s", "a",
      "g", "e", "!", " ", "(", "C", "l", "a", "w", "d", "b", "o", "t", " ",
      "G", "o", "o", "g", "l", "e", " ", "C", "h", "a", "t", " ", "i", "n",
      "t", "e", "g", "r", "a", "t", "i", "o", "n", " ", "i", "s", " ", "w",
      "o", "r", "k", "i", "n", "g", ")", "\n", "\n", "Y", "o", "u", " ", "s",
      "a", "i", "d", ":", " ", "\"">>
EchoSuffix == <<"\"">>

\* webhook-server.ts 149
InternalServerError ==
    <<"I", "n", "t", "e", "r", "n", "a", "l", " ", "s", "e", "r", "v", "e",
      "r", " ", "e", "r", "r", "o", "r">>

\* what the handler can catch: the TypeError of a property read on undefined,
\* and the reasons an onMessage callback rejects with
TypeErrorDetail == <<"T", "y", "p", "e", "E", "r", "r", "o", "r">>
RejectReasons == {<<"d", "b", " ", "d", "o", "w", "n">>}

\* webhook-server.ts 147-150 with the caught error's text sent to the client
errorResponseWithDetail(error) == MkResponse(500, MkReplyBody(None, Some(error)))

\* webhook-server.ts 147-150: the catch answers with a fixed body
errorResponse(error) == MkResponse(500, MkReplyBody(None, Some(InternalServerError)))

\* webhook-server.ts 117-119, 138-140, 146
welcomeResponse == MkResponse(200, MkReplyBody(Some(WelcomeText), None))
echoResponse(normalized) ==
    MkResponse(200, MkReplyBody(Some(EchoPrefix \o normalized.content.text \o EchoSuffix),
                                None))
defaultResponse == MkResponse(200, MkReplyBody(None, None))

\* webhook-server.ts 106-151 up to the first await or the response
webhookPost(event, onMessage) ==
    IF event.type = Some("ADDED_TO_SPACE")
    THEN MkRequest("done", Some(event), FALSE, FALSE, FALSE, FALSE, None,
                   <<welcomeResponse>>)
    ELSE IF event.type = Some("MESSAGE")
    THEN LET norm == webhookNormalizeMessage(event, account.accountId)
         IN  IF norm.threw
             THEN MkRequest("done", Some(event), FALSE, FALSE, FALSE, FALSE,
                            Some(TypeErrorDetail), <<errorResponse(TypeErrorDetail)>>)
             ELSE IF ~IsSome(norm.value)
             THEN MkRequest("done", Some(event), FALSE, FALSE, FALSE, FALSE, None,
                            <<defaultResponse>>)
             ELSE IF onMessage
             THEN MkRequest("awaiting", Some(event), TRUE, FALSE, FALSE, TRUE, None, <<>>)
             ELSE MkRequest("done", Some(event), TRUE, FALSE, FALSE, FALSE, None,
                            <<echoResponse(Get(norm.value))>>)
    ELSE MkRequest("done", Some(event), FALSE, FALSE, FALSE, FALSE, None,
                   <<defaultResponse>>)

WebhookInit ==
    /\ webhookUp = FALSE
    /\ requests = [r \in 1..MaxRequests |-> NoRequest]

WebhookIdle ==
    /\ webhookUp = FALSE
    /\ requests = <<>>

\* webhook-server.ts 84-168: the server starts listening
WebhookStart ==
    /\ ~webhookUp
    /\ Len(requests) = MaxRequests
    /\ \A r \in DOMAIN requests : requests[r].stage = "free"
    /\ webhookUp' = TRUE
    /\ UNCHANGED requests
    /\ UNCHANGED <<optionVars, pullVars, nonIngestVars>>

\* webhook-server.ts 106-146: a POST arrives and its handler runs to the
\* response, or to the await of onMessage (133)
WebhookPost ==
    /\ webhookUp
    /\ \E r \in DOMAIN requests, event \in IngestEvents :
          /\ requests[r].stage \in {"free", "done"}
          /\ requests' = [requests EXCEPT ![r] = webhookPost(event, onMessageProvided)]
    /\ UNCHANGED webhookUp
    /\ UNCHANGED <<optionVars, pullVars, nonIngestVars>>

\* webhook-server.ts 133-141: onMessage resolves and the echo is sent
WebhookOnMessageResolves ==
    /\ \E r \in DOMAIN requests :
          /\ requests[r].stage = "awaiting"
          /\ LET norm == webhookNormalizeMessage(Get(requests[r].event), account.accountId)
             IN  requests' = [requests EXCEPT
                    ![r].stage = "done",
                    ![r].responses = Append(@, echoResponse(Get(norm.value)))]
    /\ UNCHANGED webhookUp
    /\ UNCHANGED <<optionVars, pullVars, nonIngestVars>>

\* webhook-server.ts 133, 147-150: onMessage rejects and the catch answers 500
WebhookOnMessageRejects ==
    /\ \E r \in DOMAIN requests, reason \in RejectReasons :
          /\ requests[r].stage = "awaiting"
          /\ requests' = [requests EXCEPT
                ![r].stage = "done",
                ![r].error = Some(reason),
                ![r].responses = Append(@, errorResponse(reason))]
    /\ UNCHANGED webhookUp
    /\ UNCHANGED <<optionVars, pullVars, nonIngestVars>>

\* webhook-server.ts 163-166: stop closes the server to new requests; requests
\* in flight are still answered
WebhookStop ==
    /\ webhookUp
    /\ webhookUp' = FALSE
    /\ UNCHANGED requests
    /\ UNCHANGED <<optionVars, pullVars, nonIngestVars>>

IngestIdle == OptionsIdle /\ PullIdle /\ WebhookIdle

IngestNext ==
    \/ PullStartFails
    \/ PullStart
    \/ PullDeliver
    \/ AbortFires
    \/ PullStopCalled
    \/ WebhookStart
    \/ WebhookPost
    \/ WebhookOnMessageResolves
    \/ WebhookOnMessageRejects
    \/ WebhookStop

-----------------------------------------------------------------------------
(* plugin gateway (part_000): one monitor per account *)

\* the monitor of one account: outcome of its start, the error it threw, its
\* listeners on the subscription, its abort signal and the listener on it
MkMonitor(status, error, listening, hasAbortListener, isAborted) ==
    [status |-> status, error |-> error, listening |-> listening,
     abortListener |-> hasAbortListener, aborted |-> isAborted]

NoMonitor == MkMonitor("none", None, FALSE, FALSE, FALSE)

\* the configurations the gateway runs on: none; a base with project and
\* subscription only; accounts b, a and default, where a sets its project id,
\* b nothing or an empty subscription name, and default nothing
GatewayCfgs ==
    {NoGoogleChatCfg,
     MkCfg(MkConfig(None, Some(<<"p">>), Some(<<"s">>), None, None, None, None, None,
                    None, None), None)}
    \cup {MkCfg(MkConfig(None, pid, Some(<<"s">>), None, None, None, None, None, None, None),
                Some(<<[id |-> <<"b">>,
                        config |-> MkConfig(None, None, sub, None, None, None, None,
                                            None, None, None)],
                       [id |-> <<"a">>,
                        config |-> MkConfig(None, Some(<<"q">>), None, None, None, None,
                                            None, None, None, None)],
                       [id |-> DefaultAccountId, config |-> EmptyConfig]>>)) :
            pid \in {None, Some(<<"p">>), Some(<<" ">>)}, sub \in {None, Some(<<>>)}}

GatewayInit ==
    /\ appCfg \in GatewayCfgs
    /\ cfgOp = MkOp("idle", None, None)
    /\ monitors = [id \in {listGoogleChatAccountIds(appCfg)[i] :
                              i \in 1..Len(listGoogleChatAccountIds(appCfg))}
                     |-> NoMonitor]

\* part_000 177-192: gateway.startAccount for a listed account, resolved from
\* the configuration: monitorGoogleChatProvider runs on it
GatewayStartAccount ==
    /\ \E id \in DOMAIN monitors :
          /\ monitors[id].status = "none"
          /\ LET acct == resolveGoogleChatAccount(appCfg, Some(id))
                 started == monitorStart(acct, monitors[id].aborted)
             IN  monitors' = [monitors EXCEPT ![id] =
                    MkMonitor(IF started.threw THEN "failed" ELSE "started",
                              started.error, started.listening, started.abortListener,
                              monitors[id].aborted)]
    /\ UNCHANGED <<appCfg, cfgOp>>
    /\ UNCHANGED nonAccountVars

\* the abort signal of one account fires; a subscribed cleanup removes that
\* monitor's listeners, part_002 170-174, 179
GatewayAbort ==
    /\ \E id \in DOMAIN monitors :
          /\ ~monitors[id].aborted
          /\ monitors' = [monitors EXCEPT ![id] =
                MkMonitor(monitors[id].status, monitors[id].error,
                          IF monitors[id].abortListener THEN FALSE
                          ELSE monitors[id].listening,
                          FALSE, TRUE)]
    /\ UNCHANGED <<appCfg, cfgOp>>
    /\ UNCHANGED nonAccountVars

GatewayNext == GatewayStartAccount \/ GatewayAbort

-----------------------------------------------------------------------------
(* plugin outbound (part_000) and send.ts *)

\* part_000 109: outbound.textChunkLimit, and the default of send.ts 147
TextChunkLimit == 4000

\* an outbound chunk size an account configures (types.ts textChunkLimit)
SmallChunkLimit == 4

DefaultCredentials == <<"d", "e", "f", "a", "u", "l", "t">>
WorkAccountId == <<"w", "o", "r", "k">>

\* part_000 110-119: resolveTarget, without the trim
resolveTargetNoTrim(to) ==
    IF ~IsSome(to) \/ Len(Get(to)) = 0
    THEN [ok |-> FALSE, to |-> <<>>]
    ELSE [ok |-> TRUE, to |-> Get(to)]

\* part_000 110-119: resolveTarget
resolveTarget(to) ==
    IF ~IsSome(to) \/ Len(Trim(Get(to))) = 0
    THEN [ok |-> FALSE, to |-> <<>>]
    ELSE [ok |-> TRUE, to |-> Trim(Get(to))]

\* send.ts 9: the cache key
cacheKey(acct) ==
    acct.accountId \o <<":">> \o OrElse(acct.credentialsPath, DefaultCredentials)

\* send.ts 6-25: getChatClient: the cached client of the key, or a new client
\* (numbered in order of construction) that is put in the cache
getChatClient(cache, acct) ==
    LET hits == {e \in cache : e.key = cacheKey(acct)}
    IN  IF hits # {}
        THEN [cache |-> cache, client |-> (CHOOSE e \in hits : TRUE).client]
        ELSE LET client == Cardinality(cache) + 1
             IN  [cache |-> cache \cup {[key |-> cacheKey(acct), client |-> client]},
                  client |-> client]

\* send.ts 43, 78
spaceNameOf(to) == IF StartsWith(to, SpacesPrefix) THEN to ELSE SpacesPrefix \o to

\* the body of a create-message call
MkBody(txt, thread, card) == [text |-> txt, thread |-> thread, cardsV2 |-> card]
MkCall(client, parent, body) == [client |-> client, parent |-> parent, requestBody |-> body]

\* send.ts 43-59: the create call of sendGoogleChatText, always without thread
textCallNoThread(client, to, txt, acct, threadKey) ==
    LET prefix == acct.config.messagePrefix
    IN  MkCall(client, spaceNameOf(to),
               MkBody(Some(IF Truthy(prefix) THEN Get(prefix) \o <<" ">> \o txt ELSE txt),
                      None, None))

\* send.ts 43-59: the create call of sendGoogleChatText
textCall(client, to, txt, acct, threadKey) ==
    LET prefix == acct.config.messagePrefix
    IN  MkCall(client, spaceNameOf(to),
               MkBody(Some(IF Truthy(prefix) THEN Get(prefix) \o <<" ">> \o txt ELSE txt),
                      IF Truthy(threadKey) THEN threadKey ELSE None,
                      None))

\* send.ts 114-136: the card of sendGoogleChatMedia (cardId, built from the
\* clock, is left out)
mediaCard(mediaUrl, caption) ==
    [imageUrl |-> mediaUrl,
     altText |-> OrElse(caption, <<"I", "m", "a", "g", "e">>),
     textParagraph |-> IF Truthy(caption) THEN caption ELSE None]

\* send.ts 78-95: the create call of sendGoogleChatCard as sendGoogleChatMedia
\* calls it (138-141): no text option
cardCall(client, to, card, threadKey) ==
    MkCall(client, spaceNameOf(to),
           MkBody(None, IF Truthy(threadKey) THEN threadKey ELSE None, Some(card)))

\* what a caller hands to the outbound adapter
MkSendRequest(kind, to, txt, mediaUrl, accountId, replyToId) ==
    [kind |-> kind, to |-> to, text |-> txt, mediaUrl |-> mediaUrl,
     accountId |-> accountId, replyToId |-> replyToId]

\* one outbound request: where it stands, the account and client it resolved,
\* the create calls it issued, and its result
MkSend(stage, req, to, acct, client, calls, result) ==
    [stage |-> stage, req |-> req, to |-> to, acct |-> acct, client |-> client,
     calls |-> calls, result |-> result]

NoSend == MkSend("free", None, <<>>, None, 0, <<>>, None)

\* part_000 120-136: sendText and sendMedia resolve the account
\* (121, 129); send.ts 41, 76: the client is obtained before the first await
\* returns
sendStart(req, to, cache) ==
    LET acct == resolveGoogleChatAccount(sendCfg, req.accountId)
        got == getChatClient(cache, acct)
    IN  [cache |-> got.cache,
         send |-> MkSend("client", Some(req), to, Some(acct), got.client, <<>>, None)]

\* send.ts 43-59 and 78-95, 114-141: the create call the request issues
createCall(snd) ==
    LET req == Get(snd.req)
    IN  IF req.kind = "text"
        THEN textCall(snd.client, snd.to, req.text, Get(snd.acct), req.replyToId)
        ELSE cardCall(snd.client, snd.to,
                      mediaCard(OrElse(req.mediaUrl, <<>>), Some(req.text)),
                      req.replyToId)

\* a text within every chunk limit, and one longer than SmallChunkLimit
ShortText == <<"h", "i">>
LongText == <<"h", "e", "l", "l", "o", " ", "y", "o", "u">>
Destinations ==
    {None, Some(<<>>), Some(<<" ">>), Some(<<" ", "S", " ">>), Some(SpacesPrefix \o <<"S">>)}

\* the requests of the model: a short threaded text for the work account to
\* every destination, a text longer than the configured chunk limit, and a
\* media message with a caption and an empty thread reference, to a missing
\* and to a padded destination
SendRequests ==
    {MkSendRequest("text", to, ShortText, None, Some(WorkAccountId), Some(<<"t">>)) :
        to \in Destinations}
    \cup {MkSendRequest("text", Some(<<" ", "S", " ">>), LongText, None, None, None)}
    \cup {MkSendRequest("media", to, ShortText, Some(<<"u">>), None, Some(<<>>)) :
            to \in {None, Some(<<" ", "S", " ">>)}}

\* the configurations of the model: no googlechat section, and a prefix and
\* a chunk limit at base level with an account that overrides the credentials
SendCfgs ==
    {NoGoogleChatCfg,
     MkCfg(MkConfig(None, Some(<<"p">>), Some(<<"s">>), None, None, None, None, None,
                    Some(SmallChunkLimit), Some(<<"P">>)),
           Some(<<[id |-> WorkAccountId,
                   config |-> MkConfig(None, None, None, Some(<<"k">>), None, None,
                                       None, None, None, None)]>>))}

SendInit ==
    /\ sendCfg \in SendCfgs
    /\ chatClients = {}
    /\ sends = [i \in 1..MaxSends |-> NoSend]

SendIdle ==
    /\ sendCfg = NoGoogleChatCfg
    /\ chatClients = {}
    /\ sends = <<>>

ValidationFailure == Some([ok |-> FALSE, error |-> "validation", messageId |-> <<>>,
                           spaceName |-> <<>>])
NetworkFailure == Some([ok |-> FALSE, error |-> "network", messageId |-> <<>>,
                        spaceName |-> <<>>])
Delivered(messageId, spaceName) ==
    Some([ok |-> TRUE, error |-> "", messageId |-> messageId, spaceName |-> spaceName])

\* outbound delivery: the destination is resolved; a failed resolution is the
\* result and nothing is sent; otherwise sendText or sendMedia starts with the
\* resolved destination
Deliver ==
    /\ \E i \in 1..MaxSends, req \in SendRequests :
          /\ sends[i].stage \in {"free", "done"}
          /\ LET target == resolveTarget(req.to)
                 started == sendStart(req, target.to, chatClients)
             IN  IF ~target.ok
                 THEN /\ sends' = [sends EXCEPT ![i] =
                            MkSend("done", Some(req), <<>>, None, 0, <<>>, ValidationFailure)]
                      /\ UNCHANGED chatClients
                 ELSE /\ sends' = [sends EXCEPT ![i] = started.send]
                      /\ chatClients' = started.cache
    /\ UNCHANGED sendCfg
    /\ UNCHANGED nonSendVars

\* send.ts 43-59, 78-95: after the await of getChatClient the create call is
\* issued and awaited
SendCreate ==
    /\ \E i \in 1..MaxSends :
          /\ sends[i].stage = "client"
          /\ sends' = [sends EXCEPT ![i].stage = "creating",
                                    ![i].calls = Append(@, createCall(sends[i]))]
    /\ UNCHANGED <<sendCfg, chatClients>>
    /\ UNCHANGED nonSendVars

\* send.ts 61-64, 97-100; part_000 126, 135: the backend answers, with or
\* without a message name
SendSucceeds ==
    /\ \E i \in 1..MaxSends, name \in {None, Some(<<"n">>)} :
          /\ sends[i].stage = "creating"
          /\ sends' = [sends EXCEPT ![i].stage = "done",
                                    ![i].result = Delivered(OrElse(name, <<>>),
                                                            spaceNameOf(sends[i].to))]
    /\ UNCHANGED <<sendCfg, chatClients>>
    /\ UNCHANGED nonSendVars

\* send.ts 56, 92: the create call rejects and the rejection reaches the caller
SendFails ==
    /\ \E i \in 1..MaxSends :
          /\ sends[i].stage = "creating"
          /\ sends' = [sends EXCEPT ![i].stage = "done", ![i].result = NetworkFailure]
    /\ UNCHANGED <<sendCfg, chatClients>>
    /\ UNCHANGED nonSendVars

SendNext == Deliver \/ SendCreate \/ SendSucceeds \/ SendFails

\* the configurations a host hands to sendText over time (part_000 120-121:
\* cfg is an argument of every call): the work account without a credentials
\* path, with the path "default", and with the path "k"
ClientCfgs ==
    {MkCfg(MkConfig(None, Some(<<"p">>), Some(<<"s">>), None, None, None, None, None,
                    None, None),
           Some(<<[id |-> WorkAccountId,
                   config |-> MkConfig(None, None, None, credentialsPath, None, None,
                                       None, None, None, None)]>>)) :
        credentialsPath \in {None, Some(DefaultCredentials), Some(<<"k">>)}}

\* the requests of the client cache model: a short text to a valid space for
\* the work account and for the default account
ClientRequests ==
    {MkSendRequest("text", Some(SpacesPrefix \o <<"S">>), ShortText, None, accountId, None) :
        accountId \in {None, Some(WorkAccountId)}}

ClientsInit ==
    /\ sendCfg \in ClientCfgs
    /\ chatClients = {}
    /\ sends = [i \in 1..MaxSends |-> NoSend]

\* part_000 39, 120-121: the configuration is reloaded; the next sendText
\* call receives the new one
ConfigReload ==
    /\ \E c \in ClientCfgs : c # sendCfg /\ sendCfg' = c
    /\ UNCHANGED <<chatClients, sends>>
    /\ UNCHANGED nonSendVars

\* part_000 120-127: sendText is called with a resolved destination
SendText ==
    /\ \E i \in 1..MaxSends, req \in ClientRequests :
          /\ sends[i].stage \in {"free", "done"}
          /\ LET started == sendStart(req, Get(req.to), chatClients)
             IN  /\ sends' = [sends EXCEPT ![i] = started.send]
                 /\ chatClients' = started.cache
    /\ UNCHANGED sendCfg
    /\ UNCHANGED nonSendVars

ClientsNext == ConfigReload \/ SendText \/ SendCreate \/ SendSucceeds \/ SendFails

-----------------------------------------------------------------------------
(* Specifications: one per component, the other components idle *)

InitChunk ==
    ChunkInit /\ NormIdle /\ PolicyIdle /\ IngestIdle /\ SendIdle /\ AccountsIdle
SpecChunk == InitChunk /\ [][ChunkNext]_vars

\* chunkGoogleChatText is synchronous: once called it runs on
InitChunkFair ==
    ChunkInitOneLetter /\ NormIdle /\ PolicyIdle /\ IngestIdle /\ SendIdle /\ AccountsIdle
SpecChunkFair == InitChunkFair /\ [][ChunkNext]_vars /\ WF_vars(ChunkNext)

InitNorm ==
    NormInit /\ ChunkIdle /\ PolicyIdle /\ IngestIdle /\ SendIdle /\ AccountsIdle
SpecNorm == InitNorm /\ [][NormNext]_vars

InitPolicy ==
    PolicyInit /\ ChunkIdle /\ NormIdle /\ IngestIdle /\ SendIdle /\ AccountsIdle
SpecPolicy == InitPolicy /\ [][PolicyNext]_vars

\* an account is served by one transport: the monitor or the webhook server
InitIngest ==
    /\ OptionsInit
    /\ (PullInit /\ WebhookIdle) \/ (PullIdle /\ WebhookInit)
    /\ ChunkIdle /\ NormIdle /\ PolicyIdle /\ SendIdle /\ AccountsIdle
SpecIngest == InitIngest /\ [][IngestNext]_vars

\* the monitor with its handler in two steps; a started handler is a
\* continuation the event loop always resumes
InitPull ==
    /\ OptionsInit /\ PullInit /\ WebhookIdle
    /\ ChunkIdle /\ NormIdle /\ PolicyIdle /\ SendIdle /\ AccountsIdle
SpecPull == InitPull /\ [][PullNext]_vars /\ WF_vars(PullHandlerSettles)

InitSend ==
    SendInit /\ ChunkIdle /\ NormIdle /\ PolicyIdle /\ IngestIdle /\ AccountsIdle
SpecSend == InitSend /\ [][SendNext]_vars

InitClients ==
    ClientsInit /\ ChunkIdle /\ NormIdle /\ PolicyIdle /\ IngestIdle /\ AccountsIdle
SpecClients == InitClients /\ [][ClientsNext]_vars

InitGateway ==
    GatewayInit /\ ChunkIdle /\ NormIdle /\ PolicyIdle /\ IngestIdle /\ SendIdle
SpecGateway == InitGateway /\ [][GatewayNext]_vars

InitAccounts ==
    AccountsInit /\ ChunkIdle /\ NormIdle /\ PolicyIdle /\ IngestIdle /\ SendIdle
SpecAccounts == InitAccounts /\ [][AccountsNext]_vars

-----------------------------------------------------------------------------
(* Properties of chunkGoogleChatText *)

AllWhiteSpace(s) == \A i \in 1..Len(s) : s[i] \in WhiteSpace

\* C4: every chunk chunkText returns is at most maxLength long, and a text
\* within the limit comes back as exactly one chunk equal to the text.
C4_ChunksWithinLimit ==
    /\ \A i \in 1..Len(chunks) : Len(chunks[i]) <= maxLength
    /\ (chunkPc = "done" /\ Len(text) <= maxLength) => chunks = <<text>>
    /\ chunkPc = "done" => chunks = chunkGoogleChatText(text, maxLength)

\* a split text whose chunks fill the limit, and a short text returned whole
C4_Witness ==
    /\ chunkPc = "done"
    /\ Len(text) > maxLength
    /\ Len(chunks) >= 2
    /\ \E i \in 1..Len(chunks) : Len(chunks[i]) = maxLength

\* t is the chunks cs in order with only white space put between
\* consecutive chunks
RECURSIVE JoinsWithWhiteSpace(_, _)
JoinsWithWhiteSpace(t, cs) ==
    IF Len(cs) = 0 THEN t = <<>>
    ELSE IF Len(cs) = 1 THEN t = cs[1]
    ELSE /\ StartsWith(t, cs[1])
         /\ \E k \in 0..(Len(t) - Len(cs[1])) :
              /\ AllWhiteSpace(SubSeq(t, Len(cs[1]) + 1, Len(cs[1]) + k))
              /\ JoinsWithWhiteSpace(SliceFrom(t, Len(cs[1]) + k), Tail(cs))

\* the same, with white space also allowed after the last chunk
RECURSIVE JoinsWithWhiteSpaceAndTail(_, _)
JoinsWithWhiteSpaceAndTail(t, cs) ==
    IF Len(cs) = 0 THEN AllWhiteSpace(t)
    ELSE /\ StartsWith(t, cs[1])
         /\ \E k \in 0..(Len(t) - Len(cs[1])) :
              /\ AllWhiteSpace(SubSeq(t, Len(cs[1]) + 1, Len(cs[1]) + k))
              /\ JoinsWithWhiteSpaceAndTail(SliceFrom(t, Len(cs[1]) + k), Tail(cs))

\* C5 as stated: the text is rebuilt from the chunks by inserting white space
\* between consecutive chunks only.
C5_RebuildBetweenChunks ==
    chunkPc = "done" => JoinsWithWhiteSpace(text, chunks)

\* C5 amended: the text is rebuilt from the chunks by inserting white space
\* between consecutive chunks and after the last chunk; no other character is
\* lost, duplicated or reordered.
C5_RebuildBetweenAndAfter ==
    chunkPc = "done" => JoinsWithWhiteSpaceAndTail(text, chunks)

\* a text cut at a white-space run: white space was dropped between two chunks
C5_Witness ==
    /\ chunkPc = "done"
    /\ Len(chunks) >= 2
    /\ Len(chunks[1]) + Len(chunks[2]) < Len(text)
    /\ \E i \in 1..Len(text) : text[i] \notin WhiteSpace

-----------------------------------------------------------------------------
(* Properties of checkMessagePolicy *)

\* the policy kind that governs the evaluated message: the DM policy (default
\* pairing) for a direct message, the group policy (default disabled) otherwise
SelectedKind ==
    IF polMessage.chat.type = "dm"
    THEN (IF polAccount.config.dmPolicy = None THEN "pairing"
          ELSE Get(polAccount.config.dmPolicy))
    ELSE (IF polAccount.config.spacePolicy = None THEN "disabled"
          ELSE Get(polAccount.config.spacePolicy))

Evaluated == polResult # None
Allowed == polResult = Some(TRUE)
Denied == polResult = Some(FALSE)

DmAllowFrom == OrElse(polAccount.config.allowFrom, <<>>)
GroupAllowSpaces == OrElse(polAccount.config.allowSpaces, <<>>)

\* C7: under allowlist a direct message is allowed iff the sender's email,
\* trimmed and lower-cased, is an entry of the DM allowlist, and a group message
\* iff its chat id is an entry of the space allowlist.
C7_AllowlistNormalizedEmail ==
    (Evaluated /\ SelectedKind = "allowlist") =>
        IF polMessage.chat.type = "dm"
        THEN Allowed <=> Includes(DmAllowFrom,
                                  normalizeAllowEntry(OrElse(polMessage.sender.email, <<>>)))
        ELSE Allowed <=> Includes(GroupAllowSpaces, polMessage.chat.id)

\* C8: a disabled policy denies and an open policy allows, whatever the
\* sender, the chat and the allowlists.
C8_DisabledDeniesOpenAllows ==
    Evaluated =>
        /\ SelectedKind = "disabled" => Denied
        /\ SelectedKind = "open" => Allowed

\* a listed sender denied under disabled
C8_Witness ==
    /\ Denied
    /\ SelectedKind = "disabled"
    /\ polMessage.chat.type = "dm"
    /\ polAccount.config.dmPolicy = Some("disabled")
    /\ Includes(DmAllowFrom, OrElse(polMessage.sender.email, <<>>))

-----------------------------------------------------------------------------
(* Properties of normalizeMessage *)

\* C10: normalization never raises: for every raw event it returns a
\* canonical message or null.
C10_NormalizerTotal ==
    normVia \in {"pull", "webhook"} => ~normResult.threw

\* two outcomes of normalization that raise alike, are absent alike and, when
\* present, are equal in every field other than the retained raw payload
EqualButRaw(r1, r2) ==
    /\ r1.threw = r2.threw
    /\ IsSome(r1.value) = IsSome(r2.value)
    /\ IsSome(r1.value) =>
          [Get(r1.value) EXCEPT !.raw = None] = [Get(r2.value) EXCEPT !.raw = None]

\* C20: a raw event delivered through the push transport, in the shape of the
\* pull transport or in the push payload shape, is normalized to the canonical
\* message the pull transport's normalizer makes of the same logical message,
\* up to the retained raw payload, and is absent in the same cases.
C20_TransportsNormalizeAlike ==
    normVia \in {"webhook", "push"} =>
        EqualButRaw(normResult, normalizeMessage(normEvent, DefaultAccountId))

\* the same for a push event of the shape GoogleChatEvent only
C20_SameShapeNormalizeAlike ==
    normVia = "webhook" =>
        EqualButRaw(normResult, normalizeMessage(normEvent, DefaultAccountId))

-----------------------------------------------------------------------------
(* Properties of the ingestion transports *)

\* C1: in both transports an event reaches the forwarding step (pull) or the
\* onMessage callback (webhook) only after the policy was evaluated on its
\* normalized message and allowed it.
C1_PolicyBeforeDelivery ==
    /\ pullLast.run.forwarded => (pullLast.run.evaluated /\ pullLast.run.allowed)
    /\ \A r \in DOMAIN requests :
          requests[r].onMessageCalled =>
              (requests[r].evaluated /\ requests[r].allowed)

\* parsing or normalizing the payload raises an exception
PayloadRaises(data) ==
    \/ data.kind \in {"malformed", "null"}
    \/ data.kind = "object" /\ normalizeMessage(Get(data.event), account.accountId).threw

\* C2: every message the handler ran on got exactly one of ack and nack: nack
\* when parsing or normalizing raised, ack otherwise, whatever the normalizer
\* returned and whatever the policy decided.
C2_ExactlyOneAckOrNack ==
    pullLast.run.handled =>
        /\ pullLast.run.acks + pullLast.run.nacks = 1
        /\ pullLast.run.nacks = 1 <=> PayloadRaises(pullLast.data)
        /\ pullLast.run.threw <=> PayloadRaises(pullLast.data)

\* a message the policy denied was acked
C2_Witness ==
    /\ pullLast.run.handled
    /\ pullLast.run.normalized
    /\ pullLast.run.evaluated
    /\ ~pullLast.run.allowed
    /\ pullLast.run.acks = 1
    /\ pullLast.run.nacks = 0

\* an event the normalizer must drop: its declared type is not MESSAGE, or its
\* message's sender is of BOT type
NotAHumanMessage(event) ==
    \/ event.type # Some("MESSAGE")
    \/ /\ IsSome(event.message)
       /\ IsSome(Get(event.message).sender)
       /\ Get(Get(event.message).sender).type = Some("BOT")

\* C11: in both transports an event whose declared type is not MESSAGE, or
\* whose sender is a BOT, yields no canonical message, and is passed neither to
\* the policy nor to the forwarding step or the onMessage callback.
C11_BotsAndOtherEventsDropped ==
    /\ (pullLast.run.handled /\ pullLast.data.kind = "object"
            /\ NotAHumanMessage(Get(pullLast.data.event))) =>
          /\ ~pullLast.run.normalized
          /\ ~pullLast.run.evaluated
          /\ ~pullLast.run.forwarded
    /\ \A r \in DOMAIN requests :
          (IsSome(requests[r].event) /\ NotAHumanMessage(Get(requests[r].event))) =>
              /\ ~requests[r].normalized
              /\ ~requests[r].evaluated
              /\ ~requests[r].onMessageCalled

\* with an onMessage callback provided, the webhook answered a BOT's message
\* with the default response and without calling it
C11_Witness ==
    /\ onMessageProvided
    /\ \E r \in DOMAIN requests :
          /\ requests[r].stage = "done"
          /\ Get(requests[r].event).type = Some("MESSAGE")
          /\ IsSome(Get(requests[r].event).message)
          /\ IsSome(Get(Get(requests[r].event).message).sender)
          /\ Get(Get(Get(requests[r].event).message).sender).type = Some("BOT")
          /\ requests[r].responses = <<defaultResponse>>

\* the pull transport was started and its handlers are deregistered
PullStopped == pullStatus = "started" /\ ~pullListening

\* C12: once the abort signal has fired on a started pull transport its
\* handlers are deregistered (also when it was aborted before the start);
\* stopped is terminal: the transport never listens again and no further
\* message is processed, acked or nacked, and another abort or stop call
\* leaves the transport as it is.
C12_StoppedIsTerminal ==
    /\ []((pullStatus = "started" /\ aborted) => ~pullListening)
    /\ [][PullStopped => (PullStopped' /\ pullLast' = pullLast)]_vars

\* the signal fired after a message had been processed, and the transport is
\* stopped
C12_Witness ==
    /\ PullStopped
    /\ aborted
    /\ pullLast.run.handled
    /\ pullLast.run.acks = 1

\* C14: every webhook POST request gets exactly one response: none while its
\* handler awaits the callback, then one; when normalization raised or the
\* callback rejected it is HTTP 500 with the fixed error body, which carries
\* nothing of the caught error; otherwise it is one reply with status 200.
C14_ExactlyOneResponse ==
    \A r \in DOMAIN requests :
        LET q == requests[r]
        IN  /\ Len(q.responses) <= 1
            /\ q.stage \in {"free", "awaiting"} => q.responses = <<>>
            /\ q.stage = "done" =>
                  /\ Len(q.responses) = 1
                  /\ webhookNormalizeMessage(Get(q.event), account.accountId).threw
                        => (Get(q.event).type = Some("MESSAGE") => IsSome(q.error))
                  /\ IF IsSome(q.error)
                     THEN /\ q.responses[1].status = 500
                          /\ q.responses[1].body =
                                MkReplyBody(None, Some(InternalServerError))
                          /\ IndexOf(InternalServerError, Get(q.error)) = -1
                     ELSE /\ q.responses[1].status = 200
                          /\ q.responses[1].body.error = None

\* a rejecting callback was answered with the 500, and a message without
\* sender too
C14_Witness ==
    /\ \E r \in DOMAIN requests :
          /\ requests[r].stage = "done"
          /\ requests[r].onMessageCalled
          /\ IsSome(requests[r].error)
          /\ requests[r].responses[1].status = 500
    /\ \E r \in DOMAIN requests :
          /\ requests[r].stage = "done"
          /\ ~requests[r].onMessageCalled
          /\ requests[r].error = Some(TypeErrorDetail)

\* C19: an ADDED_TO_SPACE event with a user display name is answered by one
\* welcome text that mentions the display name, without a canonical message
\* and without a call of onMessage.
C19_WelcomeMentionsDisplayName ==
    \A r \in DOMAIN requests :
        LET q == requests[r]
        IN  (/\ IsSome(q.event)
             /\ Get(q.event).type = Some("ADDED_TO_SPACE")
             /\ IsSome(Get(q.event).user)
             /\ Truthy(Get(Get(q.event).user).displayName)) =>
                /\ Len(q.responses) = 1
                /\ IsSome(q.responses[1].body.text)
                /\ IndexOf(Get(q.responses[1].body.text),
                           Get(Get(Get(q.event).user).displayName)) # -1
                /\ ~q.normalized
                /\ ~q.onMessageCalled

-----------------------------------------------------------------------------
(* Properties of the gateway *)

\* C13: the start of the pull transport fails exactly for an account whose
\* project id or subscription name is empty, with an error that names the
\* account id and without any listener registered; the failing start leaves
\* the monitor of every other account as it was.
C13_ConfigErrorForThatAccountOnly ==
    /\ [](\A id \in DOMAIN monitors :
            LET m == monitors[id]
                acct == resolveGoogleChatAccount(appCfg, Some(id))
            IN  /\ m.status # "none" =>
                      (m.status = "failed" <=>
                          (acct.projectId = <<>> \/ acct.subscriptionName = <<>>))
                /\ m.status = "failed" =>
                      /\ ~m.listening
                      /\ ~m.abortListener
                      /\ IsSome(m.error)
                      /\ StartsWith(Get(m.error), ConfigErrorPrefix \o id \o <<" ">>))
    /\ [][\A id \in DOMAIN monitors :
            (monitors[id].status # "failed" /\ monitors'[id].status = "failed") =>
                \A other \in DOMAIN monitors \ {id} : monitors'[other] = monitors[other]]_vars

\* account b failed to start while account a is listening
C13_Witness ==
    /\ <<"a">> \in DOMAIN monitors
    /\ <<"b">> \in DOMAIN monitors
    /\ monitors[<<"a">>].status = "started"
    /\ monitors[<<"a">>].listening
    /\ monitors[<<"b">>].status = "failed"

\* C24: a monitor listens only for an account for which isConfigured is
\* true (project id and subscription name non-empty after trimming), and for
\* every account for which isConfigured is false, white-space-only identifiers
\* included, the start fails with the configuration error.
C24_ListensOnlyWhenConfigured ==
    \A id \in DOMAIN monitors :
        LET m == monitors[id]
            acct == resolveGoogleChatAccount(appCfg, Some(id))
        IN  /\ m.listening => isConfigured(acct)
            /\ (~isConfigured(acct) /\ m.status # "none") =>
                  /\ m.status = "failed"
                  /\ IsSome(m.error)
                  /\ StartsWith(Get(m.error), ConfigErrorPrefix \o id \o <<" ">>)

-----------------------------------------------------------------------------
(* Properties of the account functions *)

\* the base (provider-wide) fields of the configuration, and the fields the
\* account under key id sets
BaseLevel ==
    IF IsSome(appCfg.googlechat) THEN Get(appCfg.googlechat).base ELSE EmptyConfig

AccountLevel(id) ==
    IF IsSome(appCfg.googlechat) /\ IsSome(Get(appCfg.googlechat).accounts)
          /\ \E i \in DOMAIN Get(Get(appCfg.googlechat).accounts) :
                Get(Get(appCfg.googlechat).accounts)[i].id = id
    THEN LET accounts == Get(Get(appCfg.googlechat).accounts)
         IN  accounts[CHOOSE i \in DOMAIN accounts : accounts[i].id = id].config
    ELSE EmptyConfig

\* the keys of googlechat.accounts that are account ids
ConfiguredIds ==
    IF IsSome(appCfg.googlechat) /\ IsSome(Get(appCfg.googlechat).accounts)
    THEN {Get(Get(appCfg.googlechat).accounts)[i].id :
            i \in DOMAIN Get(Get(appCfg.googlechat).accounts)} \ {<<>>}
    ELSE {}

\* the account id a resolveAccount call was made for
ResolvedId == OrElse(cfgOp.arg, DefaultAccountId)

ProviderEnabled == BaseLevel.enabled # Some(FALSE)
AccountEnabled(id) == AccountLevel(id).enabled # Some(FALSE)

\* C15: resolveAccount returns enabled = provider-level enabled AND
\* account-level enabled, an unset flag counting as true; listEnabledAccounts
\* returns the resolved accounts with enabled = TRUE in the order of
\* listAccountIds.
C15_EnabledIsConjunction ==
    /\ cfgOp.op = "resolveAccount" =>
          cfgOp.result.enabled = (ProviderEnabled /\ AccountEnabled(ResolvedId))
    /\ cfgOp.op = "listEnabledAccounts" =>
          LET ids == listGoogleChatAccountIds(appCfg)
              on == SelectSeq(ids, LAMBDA id : ProviderEnabled /\ AccountEnabled(id))
          IN  /\ Len(cfgOp.result) = Len(on)
              /\ \A i \in 1..Len(on) :
                    /\ cfgOp.result[i] = resolveGoogleChatAccount(appCfg, Some(on[i]))
                    /\ cfgOp.result[i].accountId = on[i]
                    /\ cfgOp.result[i].enabled

\* an account that sets enabled = true under a provider that is disabled
\* resolves to enabled = false
C15_Witness ==
    /\ cfgOp.op = "resolveAccount"
    /\ BaseLevel.enabled = Some(FALSE)
    /\ AccountLevel(ResolvedId).enabled = Some(TRUE)
    /\ ~cfgOp.result.enabled

\* C16: every field of the resolved configuration is the account's value when
\* the account sets the field and the base value otherwise, and resolution
\* leaves the configuration it is given unchanged.
C16_MergeFieldByField ==
    /\ [](cfgOp.op = "resolveAccount" =>
            /\ \A f \in DOMAIN EmptyConfig :
                  cfgOp.result.config[f] =
                      IF IsSome(AccountLevel(ResolvedId)[f])
                      THEN AccountLevel(ResolvedId)[f] ELSE BaseLevel[f]
            /\ cfgOp.result.projectId = OrElse(cfgOp.result.config.projectId, <<>>)
            /\ cfgOp.result.subscriptionName =
                  OrElse(cfgOp.result.config.subscriptionName, <<>>))
    /\ [][appCfg' = appCfg]_vars

\* an account that overrides the project id keeps the base's subscription and
\* prefix
C16_Witness ==
    /\ cfgOp.op = "resolveAccount"
    /\ BaseLevel.projectId = Some(<<"p">>)
    /\ AccountLevel(ResolvedId).projectId = Some(<<"q">>)
    /\ ~IsSome(AccountLevel(ResolvedId).enabled)
    /\ cfgOp.result.projectId = <<"q">>
    /\ cfgOp.result.subscriptionName = <<"s">>
    /\ cfgOp.result.config.messagePrefix = Some(<<"P">>)

\* a comes before b in lexicographic order
LexicographicallyBefore(a, b) ==
    \E k \in 0..Min(Len(a), Len(b)) :
        /\ SubSeq(a, 1, k) = SubSeq(b, 1, k)
        /\ \/ k = Len(a) /\ k < Len(b)
           \/ k < Len(a) /\ k < Len(b) /\ LetterRank(a[k + 1]) < LetterRank(b[k + 1])

\* C17: listAccountIds is never empty: it is the configured account ids, each
\* once, in lexicographic order, or the default id alone when there is none;
\* resolveDefaultAccountId is the default id when listed, else the first id.
C17_AccountIdsNeverEmpty ==
    /\ cfgOp.op = "listAccountIds" =>
          /\ Len(cfgOp.result) > 0
          /\ ConfiguredIds = {} => cfgOp.result = <<DefaultAccountId>>
          /\ ConfiguredIds # {} =>
                /\ {cfgOp.result[i] : i \in 1..Len(cfgOp.result)} = ConfiguredIds
                /\ Len(cfgOp.result) = Cardinality(ConfiguredIds)
                /\ \A i \in 1..(Len(cfgOp.result) - 1) :
                      LexicographicallyBefore(cfgOp.result[i], cfgOp.result[i + 1])
    /\ cfgOp.op = "defaultAccountId" =>
          LET ids == listGoogleChatAccountIds(appCfg)
          IN  /\ Includes(ids, cfgOp.result)
              /\ cfgOp.result =
                    IF Includes(ids, DefaultAccountId) THEN DefaultAccountId ELSE ids[1]

\* accounts written as b, then a, are listed as a, b
C17_Witness ==
    /\ cfgOp.op = "listAccountIds"
    /\ listConfiguredAccountIds(appCfg) = << <<"b">>, <<"a">> >>
    /\ cfgOp.result = << <<"a">>, <<"b">> >>

\* resolveAccount was called for the default account of a configuration
\* without configured accounts
ResolvedDefaultOfNoAccounts ==
    /\ cfgOp.op = "resolveAccount"
    /\ cfgOp.arg \in {None, Some(DefaultAccountId)}
    /\ ConfiguredIds = {}

\* C18 as stated: with no configured accounts resolveAccount returns an account
\* with the default id that is usable and enabled.
C18_DefaultAccountUsable ==
    ResolvedDefaultOfNoAccounts =>
        /\ cfgOp.result.accountId = DefaultAccountId
        /\ isConfigured(cfgOp.result)
        /\ cfgOp.result.enabled

\* C18 amended: with no configured accounts resolveAccount returns an account
\* with the default id, enabled unless the provider-level flag is false, whose
\* project and subscription ids are the base-level values (empty when unset):
\* it is usable iff the base level sets both to non-blank values.
C18_DefaultAccountFromBase ==
    ResolvedDefaultOfNoAccounts =>
        /\ cfgOp.result.accountId = DefaultAccountId
        /\ cfgOp.result.enabled = (BaseLevel.enabled # Some(FALSE))
        /\ cfgOp.result.projectId = OrElse(BaseLevel.projectId, <<>>)
        /\ cfgOp.result.subscriptionName = OrElse(BaseLevel.subscriptionName, <<>>)
        /\ isConfigured(cfgOp.result) <=>
              /\ IsSome(BaseLevel.projectId)
              /\ ~AllWhiteSpace(Get(BaseLevel.projectId))
              /\ IsSome(BaseLevel.subscriptionName)
              /\ ~AllWhiteSpace(Get(BaseLevel.subscriptionName))

\* base-level project and subscription ids, no accounts: the default account
\* is usable and enabled
C18_Witness ==
    /\ ResolvedDefaultOfNoAccounts
    /\ cfgOp.arg = None
    /\ IsSome(appCfg.googlechat)
    /\ isConfigured(cfgOp.result)
    /\ cfgOp.result.enabled
    /\ cfgOp.result.accountId = DefaultAccountId

-----------------------------------------------------------------------------
(* Properties of the outbound path *)

IsTextSend(snd) == IsSome(snd.req) /\ Get(snd.req).kind = "text" /\ IsSome(snd.acct)

\* the chunks chunkText makes of a request's text under the account's chunk
\* limit (4000 unless configured)
ChunksOf(snd) ==
    chunkGoogleChatText(Get(snd.req).text,
                        IF IsSome(Get(snd.acct).config.textChunkLimit)
                        THEN Get(Get(snd.acct).config.textChunkLimit)
                        ELSE TextChunkLimit)

\* C3 as stated: sendText issues one create call per chunk of the text, each
\* carrying the thread reference when one is given.
C3_OneCallPerChunk ==
    \A i \in 1..MaxSends :
        (IsTextSend(sends[i]) /\ sends[i].stage \in {"creating", "done"}) =>
            /\ Len(sends[i].calls) = Len(ChunksOf(sends[i]))
            /\ Truthy(Get(sends[i].req).replyToId) =>
                  \A c \in 1..Len(sends[i].calls) :
                      sends[i].calls[c].requestBody.thread = Get(sends[i].req).replyToId

\* C3 amended: sendText issues exactly one create call, after the client is
\* obtained, carrying the whole text (after the configured prefix, if any) and,
\* when a non-empty thread reference is given, that reference.
C3_OneCallPerSendText ==
    \A i \in 1..MaxSends :
        IsTextSend(sends[i]) =>
            /\ sends[i].stage = "client" => sends[i].calls = <<>>
            /\ sends[i].stage \in {"creating", "done"} =>
                  /\ Len(sends[i].calls) = 1
                  /\ LET body == sends[i].calls[1].requestBody
                         prefix == Get(sends[i].acct).config.messagePrefix
                     IN  /\ body.text =
                              Some(IF Truthy(prefix)
                                   THEN Get(prefix) \o <<" ">> \o Get(sends[i].req).text
                                   ELSE Get(sends[i].req).text)
                         /\ Truthy(Get(sends[i].req).replyToId) =>
                                body.thread = Get(sends[i].req).replyToId

\* a text of several chunks was delivered with one call, and a threaded text
\* was sent with its thread
C3_Witness ==
    /\ \E i \in 1..MaxSends :
          /\ IsTextSend(sends[i])
          /\ sends[i].stage = "done"
          /\ sends[i].result # NetworkFailure
          /\ Len(ChunksOf(sends[i])) > 1
          /\ Len(sends[i].calls) = 1
    /\ \E i \in 1..MaxSends :
          /\ IsTextSend(sends[i])
          /\ sends[i].stage = "creating"
          /\ sends[i].calls[1].requestBody.thread = Some(<<"t">>)

BlankTarget(to) == ~IsSome(to) \/ AllWhiteSpace(Get(to))

\* C6: a missing, empty or white-space-only destination ends the request with
\* a validation failure and no create call; any other destination is trimmed
\* before it is used.
C6_InvalidTargetNoCall ==
    \A i \in 1..MaxSends :
        IsSome(sends[i].req) =>
            LET to == Get(sends[i].req).to
            IN  IF BlankTarget(to)
                THEN /\ sends[i].calls = <<>>
                     /\ sends[i].stage = "done"
                     /\ sends[i].result = ValidationFailure
                     /\ sends[i].result # NetworkFailure
                ELSE /\ sends[i].to = Trim(Get(to))
                     /\ sends[i].result # ValidationFailure
                     /\ \A c \in 1..Len(sends[i].calls) :
                           sends[i].calls[c].parent \in
                               {Trim(Get(to)), SpacesPrefix \o Trim(Get(to))}

\* a white-space-only destination was refused, while a padded one was sent to
\* the trimmed space
C6_Witness ==
    /\ \E i \in 1..MaxSends :
          /\ IsSome(sends[i].req)
          /\ Get(sends[i].req).to = Some(<<" ">>)
          /\ sends[i].result = ValidationFailure
    /\ \E i \in 1..MaxSends :
          /\ IsSome(sends[i].req)
          /\ Get(sends[i].req).to = Some(<<" ", "S", " ">>)
          /\ Len(sends[i].calls) = 1
          /\ sends[i].calls[1].parent = SpacesPrefix \o <<"S">>

-----------------------------------------------------------------------------
(* Termination of chunkGoogleChatText *)

\* C25: for every text and every maxLength >= 1 chunkText terminates: every
\* iteration of its loop on a remaining text longer than maxLength leaves a
\* strictly shorter remaining text, and every chunk emitted for a text longer
\* than maxLength is non-empty.
C25_LoopTerminates ==
    /\ <>(chunkPc = "done")
    /\ [][(chunkPc = "loop" /\ Len(remaining) > maxLength)
            => Len(remaining') < Len(remaining)]_vars
    /\ [](Len(text) > maxLength => \A i \in 1..Len(chunks) : Len(chunks[i]) > 0)

\* the loop returned after at least two cuts under the smallest limit
C25_Witness ==
    /\ chunkPc = "done"
    /\ maxLength = 1
    /\ Len(text) > maxLength
    /\ Len(chunks) >= 3

-----------------------------------------------------------------------------
(* Cancellation of the monitor while a message is being handled *)

Settlements == pullLast.run.acks + pullLast.run.nacks

\* C23: when the abort signal fires while a message is in flight (handler
\* started, no ack or nack yet), the signal leaves the message as it is, the
\* message leaves that state only by its handler finishing with exactly one
\* ack or nack, it does finish, and no message is ever acked or nacked twice.
C23_InFlightSurvivesAbort ==
    /\ [][(InFlight /\ ~aborted /\ aborted') => pullLast' = pullLast]_vars
    /\ [][(InFlight /\ aborted /\ pullLast' # pullLast)
            => /\ pullLast'.data = pullLast.data
               /\ pullLast'.run.handled
               /\ pullLast'.run.acks + pullLast'.run.nacks = 1]_vars
    /\ [](Settlements <= 1)
    /\ (InFlight /\ aborted) ~> (pullLast.run.handled /\ Settlements = 1)

\* the signal has fired and removed the listeners while a message is in flight
C23_Witness == InFlight /\ aborted /\ ~pullListening /\ pullStatus = "started"

-----------------------------------------------------------------------------
(* The boundary rule of chunkGoogleChatText *)

\* the 0-based indices of ch in s that are within the limit
IndicesWithin(s, ch, limit) == {i \in 0..(Len(s) - 1) : i <= limit /\ s[i + 1] = ch}

\* a separator is taken when its last index within the limit is at least half
\* the limit
Taken(indices, limit) == indices # {} /\ 2 * SetMax(indices) >= limit

\* the boundary the rule names: newline, else space, else the limit
RuleBoundary(s, limit) ==
    LET newlines == IndicesWithin(s, "\n", limit)
        spaces == IndicesWithin(s, " ", limit)
    IN  IF Taken(newlines, limit) THEN SetMax(newlines)
        ELSE IF Taken(spaces, limit) THEN SetMax(spaces)
        ELSE limit

\* every cut of the loop is made at the boundary the rule names
CutsFollowRule ==
    [][(chunkPc = "loop" /\ Len(remaining) > maxLength)
          => chunks' = Append(chunks, SliceTo(remaining, RuleBoundary(remaining, maxLength)))]_vars

\* t is two non-empty lines, each ended by a newline and both within the
\* limit, followed by a run without white space that exceeds the limit
TwoLinesThenRun(t, limit) ==
    \E n1, n2 \in 1..Len(t) :
        LET end == n1 + n2 + 2
        IN  /\ end <= limit
            /\ limit < Len(t)
            /\ \A i \in 1..end : (t[i] = "\n") <=> (i \in {n1 + 1, end})
            /\ \A i \in (end + 1)..Len(t) : t[i] \notin WhiteSpace

LastNewline(t) == SetMax({i \in 0..(Len(t) - 1) : t[i + 1] = "\n"})

FirstCutMade == chunkPc \in {"loop", "done"} /\ Len(chunks) >= 1

\* C22 as stated: each boundary is the last newline within the limit when
\* that index is at least half the limit, otherwise the last space within the
\* limit when that index is at least half the limit, otherwise maxLength; and
\* a text of two short lines followed by a long unbroken run is split at its
\* last newline, so that the first chunk is exactly the two lines.
C22_TwoLinesSplitAtNewline ==
    /\ CutsFollowRule
    /\ []((FirstCutMade /\ TwoLinesThenRun(text, maxLength))
            => chunks[1] = SliceTo(text, LastNewline(text)))

\* C22 amended: the boundary rule as stated; a text of two short lines
\* followed by a long unbroken run is split at its last newline only when the
\* index of that newline is at least half the limit, and otherwise at
\* maxLength, the first chunk then holding both lines and the start of the run.
C22_BoundaryRule ==
    /\ CutsFollowRule
    /\ []((FirstCutMade /\ TwoLinesThenRun(text, maxLength))
            => chunks[1] = SliceTo(text, IF 2 * LastNewline(text) >= maxLength
                                         THEN LastNewline(text)
                                         ELSE maxLength))

\* the two lines end before half the limit and the first chunk runs up to
\* the limit
C22_Witness ==
    /\ chunkPc = "done"
    /\ TwoLinesThenRun(text, maxLength)
    /\ 2 * LastNewline(text) < maxLength
    /\ Len(chunks[1]) = maxLength
    /\ Len(chunks[1]) > LastNewline(text) + 1

-----------------------------------------------------------------------------
(* Properties of the client cache *)

\* the sends that obtained a client
HoldsClient(snd) == IsSome(snd.acct) /\ snd.client # 0

SamePair(a, b) == a.accountId = b.accountId /\ a.credentialsPath = b.credentialsPath

\* C21: two send calls obtain the same client handle if and only if they have
\* the same account id and the same credentials reference (so at most one
\* client is constructed per pair), and a cache entry once inserted is never
\* replaced or removed.
C21_CacheKeyedByPair ==
    /\ [](\A i, j \in DOMAIN sends :
            (HoldsClient(sends[i]) /\ HoldsClient(sends[j]))
                => ((sends[i].client = sends[j].client)
                        <=> SamePair(Get(sends[i].acct), Get(sends[j].acct))))
    /\ [][chatClients \subseteq chatClients']_vars

====
